---------------------------- MODULE Spec2Model ----------------------------
(***************************************************************************)
(* A model of yaml-split: the streaming transcoder of src/src/encoding.rs  *)
(* (encoding detection, UTF-16 and UTF-32 decoders, UTF-8 re-encoder,      *)
(* ArrayBuffer) and the capturing reader of src/src/chunk.rs.              *)
(*                                                                         *)
(* Bytes are the integers 0..255, byte strings are sequences of them, and  *)
(* an Option<T> is the empty sequence (None) or a one-element sequence     *)
(* (Some).  A method that takes &mut self is an operator from the object   *)
(* (a record of its fields) to a record holding the object after the call  *)
(* and what the call returned.                                             *)
(***************************************************************************)
EXTENDS Integers, Sequences, FiniteSets, TLC

VARIABLES
    \* --- the transcoder (Transcoder, SpecTranscoder) ---
    src,          \* what the run was started with: the source's bytes and how they were made
    pc,           \* "copy": from_reader is filling the prefix; "ready": the Transcoder exists
    reader,       \* from_reader's `reader`: the bytes the raw source has not returned yet
    prefix,       \* from_reader's `prefix`: ArrayBuffer<DETECT_LEN>
    limit,        \* the Take adaptor's remaining limit
    transcoder,   \* the Transcoder: [kind, inner]
    out,          \* history: the bytes the successful reads have returned, in order
    failed,       \* history: a read has returned Err
    eof,          \* history: a read with a non-empty buffer has returned Ok(0)
    detected,     \* history: Option of from_reader's detection, [arg, encoding]
    \* --- Encoding::detect (SpecDetect) ---
    dPrefix,      \* the argument of detect
    dResult,      \* Option<Encoding>: what detect returned
    \* --- ChunkReader (SpecChunk) ---
    canon,        \* the canonical stream the underlying reader produces
    rpos,         \* the underlying reader: number of bytes it has returned
    capture,      \* ChunkReader::capture
    capture_start_pos, \* ChunkReader::capture_start_pos
    panicked,     \* a call has panicked
    rderr,        \* history: the last call was a read that returned Err
    trimmed,      \* history: the trim_to_start that no take_to_end has followed
    taken,        \* history: the last call, if it was a take_to_end
    \* --- Chunker (SpecChunker), over the ChunkReader above ---
    error,        \* ReadState::error: Option<io::Error>
    parser,       \* the libyaml parser, as far as the Chunker depends on it
    docs,         \* history: the [s, e] of the documents whose end event was produced
    open,         \* history: Option, the start offset of the document that is open
    results,      \* history: what the calls of Chunker::next have returned, in order
    lastev,       \* history: the type of the event the last step handled, or ""
    heap,         \* what Chunker::new and Event::from_parser allocated, and its releases
    \* --- UTF8Encoder (SpecEncoder) ---
    esrc,         \* what the run was started with: [text, enc, bytes]
    encoder,      \* the UTF8Encoder over a decoder over the bytes
    eout,         \* history: the bytes the successful reads have returned, in order
    elast,        \* history: Option of the last read, [n, res]
    efailed,      \* history: the number of reads that have returned Err
    eeof,         \* history: a read with a non-empty buffer has returned Ok(0)
    \* --- the decoders (SpecDecoder) ---
    usrc,         \* what the run was started with: [units, width, endianness, module, bytes]
    decoder,      \* the UTF16Decoder or UTF32Decoder over the bytes
    yielded,      \* history: the items the calls of next have returned, in order
    \* --- ArrayBuffer (SpecBuffer) ---
    buffer,       \* an ArrayBuffer<SIZE>: [buf, pos, len]
    bret,         \* history: the last call, [op, arg, n, ret, bytes]
    bpanicked     \* history: a call has panicked

tvars == <<src, pc, reader, prefix, limit, transcoder, out, failed, eof, detected>>
dvars == <<dPrefix, dResult>>
cvars == <<canon, rpos, capture, capture_start_pos, panicked, rderr, trimmed, taken>>
kvars == <<error, parser, docs, open, results, lastev, heap>>
evars == <<esrc, encoder, eout, elast, efailed, eeof>>
uvars == <<usrc, decoder, yielded>>
bvars == <<buffer, bret, bpanicked>>
vars == <<tvars, dvars, cvars, kvars, evars, uvars, bvars>>

(***************************************************************************)
(* Bounds of the model.                                                    *)
(***************************************************************************)
\* The longest text (in items: scalar values or stray code units) of a source.
MaxItems == 2
\* The most bytes cut off the end of an encoded source.
MaxTrunc == 2
\* The largest caller buffer of a bounded read.
MaxBuf == 5
\* The longest prefix handed to detect.
MaxPrefix == 5
\* The longest canonical stream of the ChunkReader.
MaxCanon == 4
\* The most documents the parser finds in a stream.
MaxDocs == 2
\* The most code units of a source of the decoders.
MaxUnits == 3

Min(a, b) == IF a < b THEN a ELSE b

Drop(s, n) == SubSeq(s, n + 1, Len(s))

Take(s, n) == SubSeq(s, 1, n)

IsPrefix(p, s) == Len(p) <= Len(s) /\ Take(s, Len(p)) = p

(***************************************************************************)
(* Encoding and Encoding::detect.                                          *)
(***************************************************************************)
Encoding == {"UTF8", "UTF16BE", "UTF16LE", "UTF32BE", "UTF32LE"}

DETECT_LEN == 4

\* A mutant of detect: the two UTF-32 patterns are tried in the other order
\* and the 2-byte rule is tried before the 4-byte rule is finished.
detect_swapped(p) ==
    IF Len(p) >= 4 /\ ((p[1] = \hFF /\ p[2] = \hFE /\ p[3] = 0 /\ p[4] = 0)
                        \/ (p[2] = 0 /\ p[3] = 0 /\ p[4] = 0))
    THEN "UTF32LE"
    ELSE IF Len(p) >= 4 /\ ((p[1] = 0 /\ p[2] = 0 /\ p[3] = \hFE /\ p[4] = \hFF)
                        \/ (p[1] = 0 /\ p[2] = 0 /\ p[3] = 0))
    THEN "UTF32BE"
    ELSE IF Len(p) >= 2 /\ ((p[1] = \hFF /\ p[2] = \hFE) \/ p[2] = 0)
    THEN "UTF16LE"
    ELSE IF Len(p) >= 2 /\ ((p[1] = \hFE /\ p[2] = \hFF) \/ p[1] = 0)
    THEN "UTF16BE"
    ELSE "UTF8"

\* A mutant of detect: the byte order mark patterns are left out and only the
\* patterns with zero bytes remain.
detect_sniff_only(p) ==
    IF Len(p) >= 4 /\ p[1] = 0 /\ p[2] = 0 /\ p[3] = 0
    THEN "UTF32BE"
    ELSE IF Len(p) >= 4 /\ p[2] = 0 /\ p[3] = 0 /\ p[4] = 0
    THEN "UTF32LE"
    ELSE IF Len(p) >= 2 /\ p[1] = 0
    THEN "UTF16BE"
    ELSE IF Len(p) >= 2 /\ p[2] = 0
    THEN "UTF16LE"
    ELSE "UTF8"

\* prefix.get(0..4) is Some exactly when the prefix has at least 4 bytes, and
\* the match arms are tried in order.
detect(p) ==
    IF Len(p) >= 4 /\ ((p[1] = 0 /\ p[2] = 0 /\ p[3] = \hFE /\ p[4] = \hFF)
                        \/ (p[1] = 0 /\ p[2] = 0 /\ p[3] = 0))
    THEN "UTF32BE"
    ELSE IF Len(p) >= 4 /\ ((p[1] = \hFF /\ p[2] = \hFE /\ p[3] = 0 /\ p[4] = 0)
                        \/ (p[2] = 0 /\ p[3] = 0 /\ p[4] = 0))
    THEN "UTF32LE"
    ELSE IF Len(p) >= 2 /\ ((p[1] = \hFE /\ p[2] = \hFF) \/ p[1] = 0)
    THEN "UTF16BE"
    ELSE IF Len(p) >= 2 /\ ((p[1] = \hFF /\ p[2] = \hFE) \/ p[2] = 0)
    THEN "UTF16LE"
    ELSE "UTF8"

(***************************************************************************)
(* ArrayBuffer<SIZE>: [buf, pos, len].                                     *)
(***************************************************************************)
ArrayBuffer_new(SIZE) == [buf |-> [i \in 1..SIZE |-> 0], pos |-> 0, len |-> 0]

unread(self) == SubSeq(self.buf, self.pos + 1, self.len)

is_empty(self) == Len(unread(self)) = 0

\* The number of unwritten bytes, self.buf[self.len..SIZE].
unwritten_len(self) == Len(self.buf) - self.len

\* set: copy b over the front of buf, pos = 0, len = b.len().
set(self, b) ==
    [buf |-> [i \in 1..Len(self.buf) |-> IF i <= Len(b) THEN b[i] ELSE self.buf[i]],
     pos |-> 0,
     len |-> Len(b)]

\* Read for ArrayBuffer: n is the length of the caller's buffer.
ArrayBuffer_read(self, n) ==
    LET k == Min(Len(unread(self)), n)
    IN  [self |-> [self EXCEPT !.pos = self.pos + k], bytes |-> Take(unread(self), k)]

\* A mutant of ArrayBuffer_write: the whole of b is counted as written.
ArrayBuffer_write_all(self, b) ==
    [self |-> [buf |-> [i \in 1..Len(self.buf) |->
                          IF i > self.len /\ i <= self.len + Len(b)
                          THEN b[i - self.len] ELSE self.buf[i]],
               pos |-> self.pos,
               len |-> self.len + Len(b)],
     n |-> Len(b)]

\* Write for ArrayBuffer: at most the unwritten space is copied.
ArrayBuffer_write(self, b) ==
    LET k == Min(unwritten_len(self), Len(b))
    IN  [self |-> [buf |-> [i \in 1..Len(self.buf) |->
                               IF i > self.len /\ i <= self.len + k
                               THEN b[i - self.len] ELSE self.buf[i]],
                   pos |-> self.pos,
                   len |-> self.len + k],
         n |-> k]


(***************************************************************************)
(* The reader R of a Transcoder: std's Chain<ArrayBuffer, R> as            *)
(* from_reader builds it, [first, done_first, second, delivered].  second  *)
(* holds the bytes the raw source has not returned yet.  A bare reader     *)
(* handed to Transcoder::new is the same record with no first half left    *)
(* (done_first set).  delivered is a history field: the bytes the reader   *)
(* has handed to its consumer, in order.                                   *)
(***************************************************************************)
Chain(first, second) ==
    [first |-> first, done_first |-> FALSE, second |-> second, delivered |-> <<>>]

Bare(second) ==
    [first |-> ArrayBuffer_new(DETECT_LEN), done_first |-> TRUE,
     second |-> second, delivered |-> <<>>]

\* A mutant of Chain_read: the first half is given up as soon as it has been
\* read once, whatever is left in it.
Chain_read_once(self, n, k) ==
    LET fr == ArrayBuffer_read(self.first, n)
    IN  IF ~self.done_first
        THEN [self |-> [self EXCEPT !.first = fr.self, !.done_first = TRUE,
                                    !.delivered = @ \o fr.bytes],
              bytes |-> fr.bytes]
        ELSE [self |-> [self EXCEPT !.second = Drop(@, k),
                                    !.delivered = @ \o Take(self.second, k)],
              bytes |-> Take(self.second, k)]

\* Read for Chain: n is the length of the caller's buffer and k the number of
\* bytes the raw source returns if it is asked (0 <= k <= n, and k = 0 only
\* when n = 0 or the source is at its end).
Chain_read(self, n, k) ==
    LET fr == ArrayBuffer_read(self.first, n)
    IN  IF ~self.done_first /\ ~(Len(fr.bytes) = 0 /\ n # 0)
        THEN [self |-> [self EXCEPT !.first = fr.self,
                                    !.delivered = @ \o fr.bytes],
              bytes |-> fr.bytes]
        ELSE [self |-> [self EXCEPT !.done_first = TRUE,
                                    !.second = Drop(@, k),
                                    !.delivered = @ \o Take(self.second, k)],
              bytes |-> Take(self.second, k)]

\* BufRead::fill_buf for Chain, reduced to what its callers look at: whether
\* the returned slice is empty.
Chain_fill_buf(self) ==
    IF ~self.done_first /\ ~is_empty(self.first)
    THEN [self |-> self, empty |-> FALSE]
    ELSE [self |-> [self EXCEPT !.done_first = TRUE], empty |-> Len(self.second) = 0]

\* Read::read_exact: read until `need` bytes are there; a read of 0 bytes ends
\* it with UnexpectedEof (ok = FALSE), the bytes read so far being consumed.
\* The raw source is asked for all it has: a source that returns less per
\* call only adds iterations.  read_exact_got is the loop's body once the
\* read `rd` has returned.
RECURSIVE read_exact(_, _, _), read_exact_got(_, _, _)
read_exact(self, need, got) ==
    IF need = 0
    THEN [self |-> self, ok |-> TRUE, bytes |-> got]
    ELSE read_exact_got(Chain_read(self, need, Min(need, Len(self.second))), need, got)

read_exact_got(rd, need, got) ==
    IF Len(rd.bytes) = 0
    THEN [self |-> rd.self, ok |-> FALSE, bytes |-> got]
    ELSE read_exact(rd.self, need - Len(rd.bytes), got \o rd.bytes)

(***************************************************************************)
(* Endianness and the items the decoders yield: Option<io::Result<char>>.  *)
(***************************************************************************)
decode_u16(endianness, b) ==
    IF endianness = "Big" THEN b[1] * 256 + b[2] ELSE b[2] * 256 + b[1]

\* A u32 is the pair <<high, low>> of its 16-bit halves, which no width of
\* the checker's integers cuts short.
decode_u32(endianness, b) ==
    IF endianness = "Big"
    THEN <<b[1] * 256 + b[2], b[3] * 256 + b[4]>>
    ELSE <<b[4] * 256 + b[3], b[2] * 256 + b[1]>>

\* `u as u32` of a u16.
u32_from_u16(u) == <<0, u>>

\* An item of a decoder.  val is the char of an Ok; unit (a u32), bits and
\* pos are what the EncodingError of an InvalidData error carries.
None == [tag |-> "None", kind |-> "", bits |-> 0, val |-> 0, unit |-> <<0, 0>>, pos |-> 0]

Ok(ch) == [tag |-> "Ok", kind |-> "", bits |-> 0, val |-> ch, unit |-> <<0, 0>>, pos |-> 0]

\* EncodingError::new(unit, pos).into(): an InvalidData error that carries
\* the unit's bit size, its value and its byte position.
EncodingError(bits, unit, pos) ==
    [tag |-> "Err", kind |-> "InvalidData", bits |-> bits, val |-> 0, unit |-> unit,
     pos |-> pos]

UnexpectedEof ==
    [tag |-> "Err", kind |-> "UnexpectedEof", bits |-> 0, val |-> 0, unit |-> <<0, 0>>,
     pos |-> 0]

(***************************************************************************)
(* UTF16Decoder: [source, pos, endianness, buf].                           *)
(***************************************************************************)
UTF16Decoder_new(source, endianness) ==
    [source |-> source, pos |-> 0, endianness |-> endianness, buf |-> <<>>]

\* next_u16: io::Result<Option<u16>> as [ok, unit], unit an Option.  pos is a
\* u64 that counts the bytes read: it cannot wrap on a source of the model.
\* next_u16_read is the function after read_exact has returned `rd`, and
\* next_u16_filled the function after fill_buf has returned `fb`.
next_u16_read(self, rd) ==
    IF ~rd.ok
    THEN [self |-> [self EXCEPT !.source = rd.self], ok |-> FALSE, unit |-> <<>>]
    ELSE [self |-> [self EXCEPT !.source = rd.self, !.pos = @ + 2],
          ok |-> TRUE,
          unit |-> <<decode_u16(self.endianness, rd.bytes)>>]

next_u16_filled(self, fb) ==
    IF fb.empty
    THEN [self |-> [self EXCEPT !.source = fb.self], ok |-> TRUE, unit |-> <<>>]
    ELSE next_u16_read(self, read_exact(fb.self, 2, <<>>))

next_u16(self) == next_u16_filled(self, Chain_fill_buf(self.source))

IsSurrogate(u) == \hD800 <= u /\ u <= \hDFFF

\* A mutant of UTF16Decoder_trail: the end of the source after a high
\* surrogate ends the sequence.
UTF16Decoder_trail_silent(lead, pos1, tr) ==
    IF ~tr.ok
    THEN [self |-> tr.self, item |-> UnexpectedEof]
    ELSE IF tr.unit = <<>>
    THEN [self |-> tr.self, item |-> None]
    ELSE IF ~(\hDC00 <= tr.unit[1] /\ tr.unit[1] <= \hDFFF)
    THEN [self |-> [tr.self EXCEPT !.buf = tr.unit],
          item |-> EncodingError(16, u32_from_u16(tr.unit[1]), pos1)]
    ELSE [self |-> tr.self,
          item |-> Ok(\h10000 + ((lead - \hD800) * 1024 + (tr.unit[1] - \hDC00)))]

\* A mutant of UTF16Decoder_trail: the unit that is no low surrogate is
\* reported and skipped.
UTF16Decoder_trail_skip(lead, pos1, tr) ==
    IF ~tr.ok
    THEN [self |-> tr.self, item |-> UnexpectedEof]
    ELSE IF tr.unit = <<>>
    THEN [self |-> tr.self, item |-> UnexpectedEof]
    ELSE IF ~(\hDC00 <= tr.unit[1] /\ tr.unit[1] <= \hDFFF)
    THEN [self |-> tr.self,
          item |-> EncodingError(16, u32_from_u16(tr.unit[1]), pos1)]
    ELSE [self |-> tr.self,
          item |-> Ok(\h10000 + ((lead - \hD800) * 1024 + (tr.unit[1] - \hDC00)))]

\* The end of next: `tr` is what next_u16 returned for the trailing unit, and
\* pos1 the position read before it.
UTF16Decoder_trail(lead, pos1, tr) ==
    IF ~tr.ok
    THEN [self |-> tr.self, item |-> UnexpectedEof]
    ELSE IF tr.unit = <<>>
    THEN [self |-> tr.self, item |-> UnexpectedEof]
    ELSE IF ~(\hDC00 <= tr.unit[1] /\ tr.unit[1] <= \hDFFF)
    THEN [self |-> [tr.self EXCEPT !.buf = tr.unit],
          item |-> EncodingError(16, u32_from_u16(tr.unit[1]), pos1)]
    ELSE [self |-> tr.self,
          item |-> Ok(\h10000 + ((lead - \hD800) * 1024 + (tr.unit[1] - \hDC00)))]

\* A mutant of UTF16Decoder_lead: the error of an unpaired low surrogate
\* carries the position after the unit.
UTF16Decoder_lead_after(self, lead, pos0) ==
    IF ~IsSurrogate(lead)
    THEN [self |-> self, item |-> Ok(lead)]
    ELSE IF lead >= \hDC00
    THEN [self |-> self, item |-> EncodingError(16, u32_from_u16(lead), self.pos)]
    ELSE UTF16Decoder_trail(lead, self.pos, next_u16(self))

\* The rest of next once the leading unit is known: `self` is the decoder
\* after the lead was taken, pos0 the position read before it.
UTF16Decoder_lead(self, lead, pos0) ==
    IF ~IsSurrogate(lead)
    THEN [self |-> self, item |-> Ok(lead)]
    ELSE IF lead >= \hDC00
    THEN [self |-> self, item |-> EncodingError(16, u32_from_u16(lead), pos0)]
    ELSE UTF16Decoder_trail(lead, self.pos, next_u16(self))

\* next when the lookahead is empty: `nx` is what next_u16 returned.
UTF16Decoder_read_lead(pos0, nx) ==
    IF ~nx.ok
    THEN [self |-> nx.self, item |-> UnexpectedEof]
    ELSE IF nx.unit = <<>>
    THEN [self |-> nx.self, item |-> None]
    ELSE UTF16Decoder_lead(nx.self, nx.unit[1], pos0)

\* Iterator::next for UTF16Decoder.
UTF16Decoder_next(self) ==
    IF self.buf # <<>>
    THEN UTF16Decoder_lead([self EXCEPT !.buf = <<>>], self.buf[1], self.pos)
    ELSE UTF16Decoder_read_lead(self.pos, next_u16(self))

(***************************************************************************)
(* UTF32Decoder: [source, pos, endianness].                                *)
(***************************************************************************)
UTF32Decoder_new(source, endianness) ==
    [source |-> source, pos |-> 0, endianness |-> endianness]

IsScalar(c) == c <= \h10FFFF /\ ~IsSurrogate(c)

\* A mutant of char_from_u32: the surrogates are taken for characters.
char_from_u32_lax(unit) ==
    IF unit[1] <= \h10 THEN <<unit[1] * 65536 + unit[2]>> ELSE <<>>

\* char::from_u32(unit): an Option<char>.
char_from_u32(unit) ==
    IF unit[1] <= \h10 /\ IsScalar(unit[1] * 65536 + unit[2])
    THEN <<unit[1] * 65536 + unit[2]>>
    ELSE <<>>

\* next after read_exact has returned `rd`.
UTF32Decoder_read(self, rd) ==
    LET unit == decode_u32(self.endianness, rd.bytes)
        ch   == char_from_u32(unit)
    IN  IF ~rd.ok
        THEN [self |-> [self EXCEPT !.source = rd.self], item |-> UnexpectedEof]
        ELSE [self |-> [self EXCEPT !.source = rd.self, !.pos = @ + 4],
              item |-> IF ch # <<>> THEN Ok(ch[1])
                       ELSE EncodingError(32, unit, self.pos)]

\* next after fill_buf has returned `fb`.
UTF32Decoder_filled(self, fb) ==
    IF fb.empty
    THEN [self |-> [self EXCEPT !.source = fb.self], item |-> None]
    ELSE UTF32Decoder_read(self, read_exact(fb.self, 4, <<>>))

\* Iterator::next for UTF32Decoder.
UTF32Decoder_next(self) == UTF32Decoder_filled(self, Chain_fill_buf(self.source))

(***************************************************************************)
(* UTF8Encoder: [source, remainder, started].                              *)
(***************************************************************************)
MAX_UTF8_ENCODED_LEN == 4

BOM == \hFEFF

\* char::encode_utf8.
encode_utf8(ch) ==
    IF ch < \h80 THEN <<ch>>
    ELSE IF ch < \h800 THEN <<\hC0 + (ch \div 64), \h80 + (ch % 64)>>
    ELSE IF ch < \h10000
    THEN <<\hE0 + (ch \div 4096), \h80 + ((ch \div 64) % 64), \h80 + (ch % 64)>>
    ELSE <<\hF0 + (ch \div 262144), \h80 + ((ch \div 4096) % 64),
           \h80 + ((ch \div 64) % 64), \h80 + (ch % 64)>>

UTF8Encoder_new(source) ==
    [source |-> source, remainder |-> ArrayBuffer_new(MAX_UTF8_ENCODED_LEN),
     started |-> FALSE]

\* self.source.next(): the encoder is generic in its source, and only a
\* UTF16Decoder has a `buf` field.
source_next(source) ==
    IF "buf" \in DOMAIN source THEN UTF16Decoder_next(source) ELSE UTF32Decoder_next(source)

\* What next_char returns when `nx` is what the source's next returned.
next_char_pass(self, nx) ==
    [self |-> [self EXCEPT !.source = nx.self, !.started = TRUE], item |-> nx.item]

\* A mutant of next_char_got: the BOM check is made on every character, not
\* only on the first.
next_char_got_always(self, n1) ==
    IF n1.item.tag = "Ok" /\ n1.item.val = BOM
    THEN next_char_pass(self, source_next(n1.self))
    ELSE next_char_pass(self, n1)

\* A mutant of next_char_got: a BOM is discarded and nothing is returned in
\* its place.
next_char_got_stop(self, n1) ==
    IF ~self.started /\ n1.item.tag = "Ok" /\ n1.item.val = BOM
    THEN [self |-> [self EXCEPT !.source = n1.self, !.started = TRUE], item |-> None]
    ELSE next_char_pass(self, n1)

\* A mutant of next_char_got: an error of the source is passed over and the
\* item after it returned.
next_char_got_skip(self, n1) ==
    IF n1.item.tag = "Err"
    THEN next_char_pass(self, source_next(n1.self))
    ELSE IF ~self.started /\ n1.item.tag = "Ok" /\ n1.item.val = BOM
    THEN next_char_pass(self, source_next(n1.self))
    ELSE next_char_pass(self, n1)

\* A mutant of next_char_got: no character is stripped.
next_char_got_keep(self, n1) == next_char_pass(self, n1)

\* A mutant of next_char_got: the flag is set by the first character, not
\* by the first item, so that an error leaves the BOM check to come.
next_char_got_late(self, n1) ==
    IF ~self.started /\ n1.item.tag = "Ok" /\ n1.item.val = BOM
    THEN next_char_pass(self, source_next(n1.self))
    ELSE IF ~self.started /\ n1.item.tag = "Err"
    THEN [self |-> [self EXCEPT !.source = n1.self], item |-> n1.item]
    ELSE next_char_pass(self, n1)

\* next_char after the source's next has returned `n1`; self.started is the
\* flag as the call found it.
next_char_got(self, n1) ==
    IF ~self.started /\ n1.item.tag = "Ok" /\ n1.item.val = BOM
    THEN next_char_pass(self, source_next(n1.self))
    ELSE next_char_pass(self, n1)

next_char(self) == next_char_got(self, source_next(self.source))

\* io::Result<usize> of a read together with the bytes the call reported:
\* the first `written` bytes of the caller's buffer.
ReadOk(bytes) == [tag |-> "Ok", bytes |-> bytes, err |-> None]

ReadErr(err) == [tag |-> "Err", bytes |-> <<>>, err |-> err]

\* The third loop of read: `space` is buf.len() and `written` the bytes put
\* into the caller's buffer so far.  emit_partial_char is the loop's body
\* once next_char has returned `nc`.
RECURSIVE emit_partial(_, _, _), emit_partial_char(_, _, _)
emit_partial(self, space, written) ==
    IF space = 0
    THEN [self |-> self, res |-> ReadOk(written)]
    ELSE emit_partial_char(next_char(self), space, written)

emit_partial_char(nc, space, written) ==
    LET tmp      == encode_utf8(nc.item.val)
        char_len == Len(tmp)
        emit_len == Min(char_len, space)
    IN  IF nc.item.tag = "Err"
        THEN [self |-> nc.self, res |-> ReadErr(nc.item)]
        ELSE IF nc.item.tag = "None"
        THEN [self |-> nc.self, res |-> ReadOk(written)]
        ELSE emit_partial(IF space - emit_len = 0
                          THEN [nc.self EXCEPT !.remainder =
                                    set(@, SubSeq(tmp, emit_len + 1, char_len))]
                          ELSE nc.self,
                          space - emit_len,
                          written \o Take(tmp, emit_len))

\* The second loop of read, which falls through to the third;
\* emit_direct_char is its body once next_char has returned `nc`.
RECURSIVE emit_direct(_, _, _), emit_direct_char(_, _, _)
emit_direct(self, space, written) ==
    IF space < MAX_UTF8_ENCODED_LEN
    THEN emit_partial(self, space, written)
    ELSE emit_direct_char(next_char(self), space, written)

emit_direct_char(nc, space, written) ==
    IF nc.item.tag = "Err"
    THEN [self |-> nc.self, res |-> ReadErr(nc.item)]
    ELSE IF nc.item.tag = "None"
    THEN [self |-> nc.self, res |-> ReadOk(written)]
    ELSE emit_direct(nc.self, space - Len(encode_utf8(nc.item.val)),
                     written \o encode_utf8(nc.item.val))

\* A mutant of UTF8Encoder_drained: what is left of the remainder is dropped
\* and the call goes on to encode new characters.
UTF8Encoder_drained_drop(self, n, dr) ==
    emit_direct([self EXCEPT !.remainder = set(@, <<>>)], n - Len(dr.bytes), dr.bytes)

\* read after the remainder has been read into the caller's buffer (`dr`):
\* `self` is the encoder as the call found it, with a remainder that is not
\* empty.
UTF8Encoder_drained(self, n, dr) ==
    IF ~is_empty(dr.self)
    THEN [self |-> [self EXCEPT !.remainder = dr.self], res |-> ReadOk(dr.bytes)]
    ELSE emit_direct([self EXCEPT !.remainder = dr.self], n - Len(dr.bytes), dr.bytes)

\* A mutant of UTF8Encoder_read: a character is asked of the source before
\* the length of the buffer is looked at.
UTF8Encoder_read_eager(self, n) ==
    IF is_empty(self.remainder)
    THEN emit_direct(next_char(self).self, n, <<>>)
    ELSE UTF8Encoder_drained(self, n, ArrayBuffer_read(self.remainder, n))

\* Read for UTF8Encoder: n is the length of the caller's buffer.
UTF8Encoder_read(self, n) ==
    IF is_empty(self.remainder)
    THEN emit_direct(self, n, <<>>)
    ELSE UTF8Encoder_drained(self, n, ArrayBuffer_read(self.remainder, n))

(***************************************************************************)
(* Transcoder: [kind, inner], inner being the reader (Passthrough) or the  *)
(* UTF8Encoder over a decoder.                                             *)
(***************************************************************************)
NoTranscoder == [kind |-> "None", inner |-> <<>>]

\* A mutant of Transcoder_new: the byte order of the UTF-16 decoders is
\* exchanged.
Transcoder_new_swapped(r, from) ==
    IF from = "UTF8" THEN [kind |-> "Passthrough", inner |-> r]
    ELSE IF from = "UTF16BE"
    THEN [kind |-> "FromUTF16", inner |-> UTF8Encoder_new(UTF16Decoder_new(r, "Little"))]
    ELSE IF from = "UTF16LE"
    THEN [kind |-> "FromUTF16", inner |-> UTF8Encoder_new(UTF16Decoder_new(r, "Big"))]
    ELSE IF from = "UTF32BE"
    THEN [kind |-> "FromUTF32", inner |-> UTF8Encoder_new(UTF32Decoder_new(r, "Big"))]
    ELSE [kind |-> "FromUTF32", inner |-> UTF8Encoder_new(UTF32Decoder_new(r, "Little"))]

Transcoder_new(r, from) ==
    IF from = "UTF8" THEN [kind |-> "Passthrough", inner |-> r]
    ELSE IF from = "UTF16BE"
    THEN [kind |-> "FromUTF16", inner |-> UTF8Encoder_new(UTF16Decoder_new(r, "Big"))]
    ELSE IF from = "UTF16LE"
    THEN [kind |-> "FromUTF16", inner |-> UTF8Encoder_new(UTF16Decoder_new(r, "Little"))]
    ELSE IF from = "UTF32BE"
    THEN [kind |-> "FromUTF32", inner |-> UTF8Encoder_new(UTF32Decoder_new(r, "Big"))]
    ELSE [kind |-> "FromUTF32", inner |-> UTF8Encoder_new(UTF32Decoder_new(r, "Little"))]

\* What Transcoder::read returns when `rd` is what the inner read returned.
Transcoder_passed(self, rd) ==
    [self |-> [self EXCEPT !.inner = rd.self], res |-> ReadOk(rd.bytes)]

Transcoder_encoded(self, er) ==
    [self |-> [self EXCEPT !.inner = er.self], res |-> er.res]

\* Read for Transcoder: n is the length of the caller's buffer, k the number
\* of bytes the raw source returns to a Passthrough read that reaches it.
Transcoder_read(self, n, k) ==
    IF self.kind = "Passthrough"
    THEN Transcoder_passed(self, Chain_read(self.inner, n, k))
    ELSE Transcoder_encoded(self, UTF8Encoder_read(self.inner, n))

\* The reader at the bottom of a Transcoder.
Transcoder_reader(self) ==
    IF self.kind = "Passthrough" THEN self.inner ELSE self.inner.source.source

(***************************************************************************)
(* The sources a run starts with.  A text is a sequence of items: scalar   *)
(* values, and stray values that are no scalar value.  encode_as is the    *)
(* writer of the spec's round-trip property: it writes a text in an        *)
(* encoding, after a byte order mark or not.  It writes a stray value as   *)
(* the code unit of that value (UTF-16, UTF-32) or as the byte FF (UTF-8), *)
(* so that sources that are not well-formed are among the inputs.          *)
(***************************************************************************)
Scalars == {0, \h41, \hE9, \hFEFF, \h1F600}

Items(E) ==
    IF E = "UTF8" THEN Scalars \cup {\hDE00}
    ELSE IF E \in {"UTF16BE", "UTF16LE"} THEN Scalars \cup {\hD83D, \hDE00}
    ELSE Scalars \cup {\hDE00, \h110000}

Texts(E) == UNION {[1..n -> Items(E)] : n \in 0..MaxItems}

be16(u) == <<u \div 256, u % 256>>

le16(u) == <<u % 256, u \div 256>>

be32(u) == <<u \div 16777216, (u \div 65536) % 256, (u \div 256) % 256, u % 256>>

le32(u) == <<u % 256, (u \div 256) % 256, (u \div 65536) % 256, u \div 16777216>>

\* The UTF-16 code units of an item.
units16(c) ==
    IF c >= \h10000
    THEN <<\hD800 + ((c - \h10000) \div 1024), \hDC00 + ((c - \h10000) % 1024)>>
    ELSE <<c>>

\* The UTF-8 encoding of each scalar value of the model, from the tables of
\* the Unicode standard.
utf8_of(c) ==
    CASE c = 0       -> <<0>>
      [] c = \h41    -> <<\h41>>
      [] c = \hE9    -> <<\hC3, \hA9>>
      [] c = \hFEFF  -> <<\hEF, \hBB, \hBF>>
      [] c = \h1F600 -> <<\hF0, \h9F, \h98, \h80>>

encode_item(c, E) ==
    IF E = "UTF8" THEN (IF IsScalar(c) THEN utf8_of(c) ELSE <<\hFF>>)
    ELSE IF E = "UTF16BE"
    THEN (IF Len(units16(c)) = 2 THEN be16(units16(c)[1]) \o be16(units16(c)[2])
          ELSE be16(c))
    ELSE IF E = "UTF16LE"
    THEN (IF Len(units16(c)) = 2 THEN le16(units16(c)[1]) \o le16(units16(c)[2])
          ELSE le16(c))
    ELSE IF E = "UTF32BE" THEN be32(c)
    ELSE le32(c)

RECURSIVE encode_text(_, _)
encode_text(T, E) ==
    IF T = <<>> THEN <<>> ELSE encode_item(Head(T), E) \o encode_text(Tail(T), E)

encode_as(T, E, bom) == (IF bom THEN encode_item(BOM, E) ELSE <<>>) \o encode_text(T, E)

\* The UTF-8 encoding of a text of scalar values.
RECURSIVE utf8_text(_)
utf8_text(T) == IF T = <<>> THEN <<>> ELSE utf8_of(Head(T)) \o utf8_text(Tail(T))

IsText(T) == \A i \in 1..Len(T) : IsScalar(T[i])

(***************************************************************************)
(* Variables at rest: each specification below moves the variables of one  *)
(* component and leaves the others as they are here.                       *)
(***************************************************************************)
TIdle ==
    /\ src = [bytes |-> <<>>, text |-> <<>>, bom |-> FALSE, enc |-> "UTF8",
              mode |-> "new", trunc |-> 0]
    /\ pc = "idle"
    /\ reader = <<>>
    /\ prefix = ArrayBuffer_new(DETECT_LEN)
    /\ limit = 0
    /\ transcoder = NoTranscoder
    /\ out = <<>>
    /\ failed = FALSE
    /\ eof = FALSE
    /\ detected = <<>>

DIdle ==
    /\ dPrefix = <<>>
    /\ dResult = <<>>

CIdle ==
    /\ canon = <<>>
    /\ rpos = 0
    /\ capture = <<>>
    /\ capture_start_pos = 0
    /\ panicked = FALSE
    /\ rderr = FALSE
    /\ trimmed = <<>>
    /\ taken = <<>>

\* The parser before anything was asked of it.
ParserIdle ==
    [mark |-> 0, eof |-> FALSE, stream_end_produced |-> FALSE, error |-> "",
     failing |-> FALSE]

\* The event of a turn of next: whether the Box was allocated, whether it
\* became an Event, how often yaml_event_delete ran on it, how often its
\* Box was freed, and whether it was read after either.
NoEvent ==
    [boxed |-> FALSE, made |-> FALSE, deleted |-> 0, freed |-> 0, used_after |-> FALSE]

\* The allocations after Chunker::new: the parser is initialized and held
\* as a raw pointer, and so is the read state.
Chunker_new_heap ==
    [parser |-> [deleted |-> 0, freed |-> 0],
     read_state |-> [freed |-> 0],
     event |-> NoEvent,
     live_events |-> 0,
     dropped |-> FALSE]

KIdle ==
    /\ heap = Chunker_new_heap
    /\ error = <<>>
    /\ parser = ParserIdle
    /\ docs = <<>>
    /\ open = <<>>
    /\ results = <<>>
    /\ lastev = ""

EIdle ==
    /\ esrc = [text |-> <<>>, enc |-> "UTF16BE", bytes |-> <<>>]
    /\ encoder = UTF8Encoder_new(UTF16Decoder_new(Bare(<<>>), "Big"))
    /\ eout = <<>>
    /\ elast = <<>>
    /\ efailed = 0
    /\ eeof = FALSE

UIdle ==
    /\ usrc = [units |-> <<>>, width |-> 16, endianness |-> "Big",
               module |-> "encoding", bytes |-> <<>>]
    /\ decoder = UTF16Decoder_new(Bare(<<>>), "Big")
    /\ yielded = <<>>

\* The SIZE of the ArrayBuffer of the UTF8Encoder.
SIZE == MAX_UTF8_ENCODED_LEN

BIdle ==
    /\ buffer = ArrayBuffer_new(SIZE)
    /\ bret = [op |-> "new", arg |-> <<>>, n |-> 0, ret |-> 0, bytes |-> <<>>]
    /\ bpanicked = FALSE

(***************************************************************************)
(* SpecTranscoder: a Transcoder is made over a source, by Transcoder::new  *)
(* with the encoding the source was written in or by from_reader, and is   *)
(* then read with buffers of any sizes.                                    *)
(***************************************************************************)
\* A buffer large enough for everything a source of the model decodes to.
Unbounded == MAX_UTF8_ENCODED_LEN * (MaxItems + 2)

ReadSizes == (0..MaxBuf) \cup {Unbounded}

TInit ==
    /\ \E E \in Encoding, bom \in BOOLEAN, trunc \in 0..MaxTrunc,
          mode \in {"new", "from_reader"} :
         \E T \in Texts(E) :
            LET full  == encode_as(T, E, bom)
                bytes == Take(full, Len(full) - trunc)
            IN  /\ trunc <= Len(full)
                \* the marked stream of T is the unmarked stream of U+FEFF T:
                \* the cut streams are drawn from the unmarked ones
                /\ bom => trunc = 0
                /\ src = [bytes |-> bytes, text |-> T, bom |-> bom, enc |-> E,
                          mode |-> mode, trunc |-> trunc]
                /\ IF mode = "new"
                   THEN /\ pc = "ready"
                        /\ reader = <<>>
                        /\ limit = 0
                        /\ transcoder = Transcoder_new(Bare(bytes), E)
                   ELSE /\ pc = "copy"
                        /\ reader = bytes
                        /\ limit = DETECT_LEN
                        /\ transcoder = NoTranscoder
    /\ prefix = ArrayBuffer_new(DETECT_LEN)
    /\ out = <<>>
    /\ failed = FALSE
    /\ eof = FALSE
    /\ detected = <<>>
    /\ DIdle
    /\ CIdle
    /\ KIdle
    /\ EIdle
    /\ UIdle
    /\ BIdle

\* One round of io::copy(&mut (&mut reader).take(DETECT_LEN), &mut prefix):
\* the source returns k bytes, at least one and no more than the limit
\* allows, and write_all puts them into the prefix.
CopyStep ==
    /\ pc = "copy"
    /\ limit > 0
    /\ Len(reader) > 0
    /\ \E k \in 1..Min(limit, Len(reader)) :
         /\ prefix' = ArrayBuffer_write(prefix, Take(reader, k)).self
         /\ reader' = Drop(reader, k)
         /\ limit' = limit - k
    /\ UNCHANGED <<src, pc, transcoder, out, failed, eof, detected>>
    /\ UNCHANGED <<dvars, cvars, kvars, evars, uvars, bvars>>

\* The rest of from_reader, once the copy has read 0 bytes (the limit is used
\* up or the source is at its end): detect, and build the Transcoder over the
\* prefix chained to the reader.
FromReaderFinish ==
    /\ pc = "copy"
    /\ (limit = 0 \/ Len(reader) = 0)
    /\ LET encoding == detect(unread(prefix))
       IN  /\ detected' = <<[arg |-> unread(prefix), encoding |-> encoding]>>
           /\ transcoder' = Transcoder_new(Chain(prefix, reader), encoding)
    /\ reader' = <<>>
    /\ pc' = "ready"
    /\ UNCHANGED <<src, prefix, limit, out, failed, eof>>
    /\ UNCHANGED <<dvars, cvars, kvars, evars, uvars, bvars>>

\* The number of bytes the raw source may return to a read of n bytes: all
\* it is asked for and has, or (a short read) any smaller number above 0.
SourceReturns(n) ==
    LET avail == Min(n, Len(Transcoder_reader(transcoder).second))
    IN  IF transcoder.kind = "Passthrough" /\ avail > 0 THEN 1..avail ELSE {avail}

\* A call of Transcoder::read with a buffer of n bytes.
Read ==
    /\ pc = "ready"
    /\ \E n \in ReadSizes :
         \E k \in SourceReturns(n) :
          \E r \in {Transcoder_read(transcoder, n, k)} :
                /\ transcoder' = r.self
                /\ out' = out \o r.res.bytes
                /\ failed' = (failed \/ r.res.tag = "Err")
                /\ eof' = (eof \/ (n > 0 /\ r.res.tag = "Ok" /\ r.res.bytes = <<>>))
    /\ UNCHANGED <<src, pc, reader, prefix, limit, detected>>
    /\ UNCHANGED <<dvars, cvars, kvars, evars, uvars, bvars>>

TNext == CopyStep \/ FromReaderFinish \/ Read

SpecTranscoder == TInit /\ [][TNext]_vars

(***************************************************************************)
(* Properties of SpecTranscoder.                                           *)
(***************************************************************************)
\* The items written to the source: the mark, if one was written, and the text.
Written == (IF src.bom THEN <<BOM>> ELSE <<>>) \o src.text

\* A sequence of scalar values without one leading U+FEFF.
StripBom(W) == IF W # <<>> /\ W[1] = BOM THEN Tail(W) ELSE W

\* The UTF-8 encoding of U+FEFF.
Utf8Bom == <<\hEF, \hBB, \hBF>>

\* Well-formed UTF-8, by the table of well-formed byte sequences of the
\* Unicode standard.
IsCont(b) == b >= \h80 /\ b <= \hBF

RECURSIVE IsValidUtf8(_)
IsValidUtf8(b) ==
    IF b = <<>> THEN TRUE
    ELSE IF b[1] < \h80 THEN IsValidUtf8(Tail(b))
    ELSE IF b[1] >= \hC2 /\ b[1] <= \hDF
    THEN Len(b) >= 2 /\ IsCont(b[2]) /\ IsValidUtf8(Drop(b, 2))
    ELSE IF b[1] >= \hE0 /\ b[1] <= \hEF
    THEN /\ Len(b) >= 3 /\ IsCont(b[2]) /\ IsCont(b[3])
         /\ b[1] = \hE0 => b[2] >= \hA0
         /\ b[1] = \hED => b[2] <= \h9F
         /\ IsValidUtf8(Drop(b, 3))
    ELSE IF b[1] >= \hF0 /\ b[1] <= \hF4
    THEN /\ Len(b) >= 4 /\ IsCont(b[2]) /\ IsCont(b[3]) /\ IsCont(b[4])
         /\ b[1] = \hF0 => b[2] >= \h90
         /\ b[1] = \hF4 => b[2] <= \h8F
         /\ IsValidUtf8(Drop(b, 4))
    ELSE FALSE

\* The Transcoder as it was constructed over the source of this run.
Constructed ==
    IF src.mode = "new"
    THEN Transcoder_new(Bare(src.bytes), src.enc)
    ELSE Transcoder_new(Chain(prefix, Drop(src.bytes, prefix.len)), detected[1].encoding)

\* The bytes of reads with a buffer that the whole output fits in, made until
\* a read returns Ok(0) or an error.
RECURSIVE ReadToEnd(_, _), ReadToEnd_got(_, _)
ReadToEnd(t, acc) ==
    ReadToEnd_got(Transcoder_read(t, Unbounded, Len(Transcoder_reader(t).second)), acc)

ReadToEnd_got(r, acc) ==
    IF r.res.tag = "Err" \/ r.res.bytes = <<>>
    THEN acc
    ELSE ReadToEnd(r.self, acc \o r.res.bytes)

C2_ReadSizeIndependence ==
    [][(pc = "ready" /\ ~failed /\ ~eof /\ (failed' \/ eof'))
          => out' = ReadToEnd(Constructed, <<>>)]_vars

\* The source began with a mark and the scalar value after it is not another
\* U+FEFF, written in the encoding the Transcoder decodes.
BeganWithOneBom ==
    /\ src.mode = "new"
    /\ Written # <<>> /\ Written[1] = BOM
    /\ ~(Len(Written) >= 2 /\ Written[2] = BOM)

Pending(r) == (IF r.done_first THEN <<>> ELSE unread(r.first)) \o r.second

\* C4: after from_reader, however the source split its bytes over the reads
\* of the copy, the detector has seen the first min(4, length) bytes of the
\* source; the bytes the pipeline has received followed by the bytes still
\* to come are the bytes of the source, each once and in order, and at the
\* end of the stream the pipeline has received them all; and when UTF8 was
\* detected the output is the input byte for byte.
C4_NonDestructive ==
    (src.mode = "from_reader" /\ pc = "ready") =>
        LET r == Transcoder_reader(transcoder)
        IN  /\ detected[1].arg = Take(src.bytes, Min(DETECT_LEN, Len(src.bytes)))
            /\ r.delivered \o Pending(r) = src.bytes
            /\ eof => r.delivered = src.bytes
            /\ detected[1].encoding = "UTF8" =>
                   /\ IsPrefix(out, src.bytes)
                   /\ eof => out = src.bytes

\* A source of 3 bytes, shorter than the prefix, was detected as UTF8 and
\* read to its end.
C4_Witness ==
    /\ src.mode = "from_reader" /\ pc = "ready" /\ eof
    /\ Len(src.bytes) = 3
    /\ detected[1].encoding = "UTF8"
    /\ out = src.bytes

\* C7 (as stated): for each of the four UTF-16 and UTF-32 encodings and any
\* text, the mark followed by the text, given to from_reader, is detected
\* as that encoding and reads as the UTF-8 encoding of the text.
C7_EndToEnd_Stated ==
    (src.mode = "from_reader" /\ pc = "ready" /\ src.enc # "UTF8" /\ src.bom
        /\ IsText(src.text) /\ src.trunc = 0)
        => /\ detected[1].encoding = src.enc
           /\ eof => out = utf8_text(src.text)

\* C7 (amended): the same, except for a UTF-16LE text that begins with
\* U+0000, whose first four bytes FF FE 00 00 are the UTF-32LE mark.
C7_EndToEnd ==
    (src.mode = "from_reader" /\ pc = "ready" /\ src.enc # "UTF8" /\ src.bom
        /\ IsText(src.text) /\ src.trunc = 0
        /\ ~(src.enc = "UTF16LE" /\ src.text # <<>> /\ src.text[1] = 0))
        => /\ detected[1].encoding = src.enc
           /\ ~failed
           /\ IsPrefix(out, utf8_text(src.text))
           /\ eof => out = utf8_text(src.text)

\* The bytes FE FF 00 41 were given to from_reader and read to the end.
C7_Witness ==
    /\ src.mode = "from_reader" /\ pc = "ready" /\ eof
    /\ src.bytes = <<\hFE, \hFF, 0, \h41>>
    /\ detected[1].encoding = "UTF16BE"
    /\ out = <<\h41>>

(***************************************************************************)
(* SpecDetect: Encoding::detect is applied to a prefix of any length up to *)
(* MaxPrefix.                                                              *)
(***************************************************************************)
\* The bytes the patterns of detect tell apart, and some they do not.
DBytes == {0, \h41, \hBB, \hBF, \hEF, \hFE, \hFF}

DInit ==
    /\ dPrefix \in UNION {[1..n -> DBytes] : n \in 0..MaxPrefix}
    /\ dResult = <<>>
    /\ TIdle
    /\ CIdle
    /\ KIdle
    /\ EIdle
    /\ UIdle
    /\ BIdle

Detect ==
    /\ dResult = <<>>
    /\ dResult' = <<detect(dPrefix)>>
    /\ UNCHANGED dPrefix
    /\ UNCHANGED <<tvars, cvars, kvars, evars, uvars, bvars>>

DNext == Detect

SpecDetect == DInit /\ [][DNext]_vars

\* The 4-byte rule in the words of the specification, on exactly 4 bytes.
detect_rule4(q) ==
    IF q = <<0, 0, \hFE, \hFF>> \/ Take(q, 3) = <<0, 0, 0>> THEN "UTF32BE"
    ELSE IF q = <<\hFF, \hFE, 0, 0>> \/ Drop(q, 1) = <<0, 0, 0>> THEN "UTF32LE"
    ELSE "none"

\* The 2-byte rule in the words of the specification, on exactly 2 bytes.
detect_rule2(q) ==
    IF q = <<\hFE, \hFF>> \/ q[1] = 0 THEN "UTF16BE"
    ELSE IF q = <<\hFF, \hFE>> \/ q[2] = 0 THEN "UTF16LE"
    ELSE "none"

detect_reference(p) ==
    LET r4 == IF Len(p) >= 4 THEN detect_rule4(Take(p, 4)) ELSE "none"
        r2 == IF Len(p) >= 2 THEN detect_rule2(Take(p, 2)) ELSE "none"
    IN  IF r4 # "none" THEN r4 ELSE IF r2 # "none" THEN r2 ELSE "UTF8"

\* C5: detect returns an encoding for every prefix, the one the reference
\* gives: the 4-byte rule (UTF32BE first) when 4 bytes are there, else the
\* 2-byte rule (UTF16BE first), else UTF8; a prefix of 0 or 1 bytes gives
\* UTF8, one of 2 or 3 bytes is decided by the 2-byte rule alone, and the
\* bytes after the fourth do not change the result.
C5_DetectReference ==
    dResult # <<>> =>
        /\ dResult[1] \in Encoding
        /\ dResult[1] = detect_reference(dPrefix)
        /\ Len(dPrefix) <= 1 => dResult[1] = "UTF8"
        /\ Len(dPrefix) \in {2, 3} =>
               dResult[1] = (IF detect_rule2(Take(dPrefix, 2)) # "none"
                             THEN detect_rule2(Take(dPrefix, 2)) ELSE "UTF8")
        /\ dResult[1] = detect_reference(Take(dPrefix, Min(DETECT_LEN, Len(dPrefix))))

\* detect has decided a prefix of more than 4 bytes by the pattern
\* [x,00,00,00] whose first two bytes alone would give UTF16BE or UTF8.
C5_Witness ==
    /\ dResult = <<"UTF32LE">>
    /\ Len(dPrefix) > DETECT_LEN
    /\ dPrefix[1] = \h41
    /\ dPrefix[5] # 0

\* The byte order mark of each encoding: U+FEFF written in it.
bom_bytes(E) == encode_item(BOM, E)

\* C6: detect applied to the byte order mark of an encoding returns that
\* encoding, for each of the five encodings.
C6_DetectBom ==
    \A E \in Encoding :
        (dResult # <<>> /\ dPrefix = bom_bytes(E)) => dResult[1] = E

\* detect has been applied to the UTF-32LE mark, FF FE 00 00, which begins
\* with the UTF-16LE mark.
C6_Witness ==
    /\ dResult = <<"UTF32LE">>
    /\ dPrefix = <<\hFF, \hFE, 0, 0>>

(***************************************************************************)
(* ChunkReader: [capture, capture_start_pos] over an underlying reader.    *)
(***************************************************************************)
ChunkReader_new == [capture |-> <<>>, capture_start_pos |-> 0]

\* A mutant of trim_to_start: the bytes are drained and capture_start_pos
\* keeps its value.
trim_to_start_keep(self, pos, wraps) ==
    LET excess_start_len == pos - self.capture_start_pos
    IN  IF excess_start_len < 0 \/ excess_start_len > Len(self.capture)
        THEN [self |-> self, panicked |-> TRUE]
        ELSE [self |-> [self EXCEPT !.capture = Drop(@, excess_start_len)],
              panicked |-> FALSE]

\* trim_to_start.  pos - capture_start_pos below 0 panics where the build
\* checks overflow and wraps to a huge usize where it does not (wraps);
\* capture_start_pos is assigned next, and drain(..n) panics when n is more
\* than capture.len().
trim_to_start(self, pos, wraps) ==
    LET excess_start_len == pos - self.capture_start_pos
    IN  IF excess_start_len < 0 /\ ~wraps
        THEN [self |-> self, panicked |-> TRUE]
        ELSE IF excess_start_len < 0 \/ excess_start_len > Len(self.capture)
        THEN [self |-> [self EXCEPT !.capture_start_pos = pos], panicked |-> TRUE]
        ELSE [self |-> [capture |-> Drop(self.capture, excess_start_len),
                        capture_start_pos |-> pos],
              panicked |-> FALSE]

\* A mutant of take_to_end: the chunk is copied out of the capture and
\* stays in it.
take_to_end_copy(self, pos) ==
    LET take_len == pos - self.capture_start_pos
    IN  IF take_len < 0 \/ take_len > Len(self.capture)
        THEN [self |-> self, ret |-> <<>>, panicked |-> TRUE]
        ELSE [self |-> [capture |-> self.capture, capture_start_pos |-> pos],
              ret |-> Take(self.capture, take_len),
              panicked |-> FALSE]

\* A mutant of take_to_end: the tail is returned and the front is kept.
take_to_end_tail(self, pos) ==
    LET take_len == pos - self.capture_start_pos
    IN  IF take_len < 0 \/ take_len > Len(self.capture)
        THEN [self |-> self, ret |-> <<>>, panicked |-> TRUE]
        ELSE [self |-> [capture |-> Take(self.capture, take_len),
                        capture_start_pos |-> pos],
              ret |-> Drop(self.capture, take_len),
              panicked |-> FALSE]

\* take_to_end.  The subtraction panics or wraps as in trim_to_start, and
\* split_off(n) panics when n is more than capture.len(): either way nothing
\* has been assigned.
take_to_end(self, pos) ==
    LET take_len == pos - self.capture_start_pos
    IN  IF take_len < 0 \/ take_len > Len(self.capture)
        THEN [self |-> self, ret |-> <<>>, panicked |-> TRUE]
        ELSE [self |-> [capture |-> Drop(self.capture, take_len),
                        capture_start_pos |-> pos],
              ret |-> Take(self.capture, take_len),
              panicked |-> FALSE]

\* A mutant of ChunkReader_read: the bytes are put in front of the capture.
ChunkReader_read_front(self, rd) ==
    IF rd.tag = "Err"
    THEN [self |-> self, res |-> rd]
    ELSE [self |-> [self EXCEPT !.capture = rd.bytes \o @], res |-> rd]

\* Read for ChunkReader: rd is what self.reader.read(buf) returned.
ChunkReader_read(self, rd) ==
    IF rd.tag = "Err"
    THEN [self |-> self, res |-> rd]
    ELSE [self |-> [self EXCEPT !.capture = @ \o rd.bytes], res |-> rd]

(***************************************************************************)
(* SpecChunk: a ChunkReader over a reader that produces the canonical      *)
(* stream is read, trimmed and taken from, with offsets in and out of      *)
(* range.                                                                  *)
(***************************************************************************)
\* The bytes of a canonical stream: '-', 'a' and a line feed.
CBytes == {\h2D, \h61, \h0A}

\* The ChunkReader of the state.
ChunkReader == [capture |-> capture, capture_start_pos |-> capture_start_pos]

\* What the underlying reader may return to a read of n bytes: an error, or
\* some of the bytes it has left, none only when n is 0 or none are left.
UnderlyingReturns(n) ==
    LET avail == Min(n, Len(canon) - rpos)
    IN  {[tag |-> "Err", bytes |-> <<>>]}
        \cup {[tag |-> "Ok", bytes |-> SubSeq(canon, rpos + 1, rpos + k)] :
                   k \in (IF avail = 0 THEN {0} ELSE 1..avail)}

\* The offsets the calls are made with: those of the stream and one beyond.
Offsets == 0..(MaxCanon + 1)

CInit ==
    /\ canon \in UNION {[1..n -> CBytes] : n \in 0..MaxCanon}
    /\ rpos = 0
    /\ capture = ChunkReader_new.capture
    /\ capture_start_pos = ChunkReader_new.capture_start_pos
    /\ panicked = FALSE
    /\ rderr = FALSE
    /\ trimmed = <<>>
    /\ taken = <<>>
    /\ TIdle
    /\ DIdle
    /\ KIdle
    /\ EIdle
    /\ UIdle
    /\ BIdle

CRead ==
    /\ ~panicked
    /\ \E n \in 0..MaxBuf :
         \E rd \in UnderlyingReturns(n) :
          \E r \in {ChunkReader_read(ChunkReader, rd)} :
             /\ capture' = r.self.capture
             /\ capture_start_pos' = r.self.capture_start_pos
             /\ rpos' = rpos + Len(rd.bytes)
             /\ rderr' = (r.res.tag = "Err")
             /\ trimmed' = IF trimmed # <<>> /\ Len(rd.bytes) > 0
                           THEN <<[trimmed[1] EXCEPT !.read = TRUE]>>
                           ELSE trimmed
    /\ taken' = <<>>
    /\ UNCHANGED <<canon, panicked>>
    /\ UNCHANGED <<tvars, dvars, kvars, evars, uvars, bvars>>

CTrim ==
    /\ ~panicked
    /\ \E pos \in Offsets, wraps \in BOOLEAN :
         \E r \in {trim_to_start(ChunkReader, pos, wraps)} :
             /\ capture' = r.self.capture
             /\ capture_start_pos' = r.self.capture_start_pos
             /\ panicked' = r.panicked
             /\ trimmed' = IF r.panicked THEN trimmed
                           ELSE <<[pos |-> pos, read |-> FALSE]>>
    /\ rderr' = FALSE
    /\ taken' = <<>>
    /\ UNCHANGED <<canon, rpos>>
    /\ UNCHANGED <<tvars, dvars, kvars, evars, uvars, bvars>>

CTake ==
    /\ ~panicked
    /\ \E pos \in Offsets :
         \E r \in {take_to_end(ChunkReader, pos)} :
             /\ capture' = r.self.capture
             /\ capture_start_pos' = r.self.capture_start_pos
             /\ panicked' = r.panicked
             /\ trimmed' = IF r.panicked THEN trimmed ELSE <<>>
             /\ taken' = IF r.panicked THEN <<>>
                         ELSE <<[trimmed |-> trimmed, pos |-> pos, ret |-> r.ret]>>
    /\ rderr' = FALSE
    /\ UNCHANGED <<canon, rpos>>
    /\ UNCHANGED <<tvars, dvars, kvars, evars, uvars, bvars>>

CNext == CRead \/ CTrim \/ CTake

SpecChunk == CInit /\ [][CNext]_vars

\* The bytes of the canonical stream at the offsets [a, b).
CanonBytes(a, b) == SubSeq(canon, a + 1, b)

\* C8: after any calls of read, trim_to_start and take_to_end whose offsets
\* were in range (none has panicked), capture_start_pos + capture.len() is
\* the number of bytes the underlying reader has returned.
C8_Accounting ==
    ~panicked => capture_start_pos + Len(capture) = rpos

\* The whole stream has been read, a trim and a take at offsets above 0 have
\* both removed bytes, and bytes are left in the capture.
C8_Witness ==
    /\ ~panicked
    /\ taken # <<>> /\ taken[1].trimmed # <<>>
    /\ taken[1].trimmed[1].pos > 0
    /\ Len(taken[1].ret) > 0
    /\ Len(capture) > 0
    /\ rpos = Len(canon)

\* C9: as long as no call has panicked, the capture holds the bytes of the
\* canonical stream at [capture_start_pos, capture_start_pos + len), in
\* order; a read appends the bytes the underlying read returned and leaves
\* capture_start_pos alone; and the capture gets shorter only in a
\* trim_to_start or a take_to_end.
C9_Content ==
    [][~panicked' =>
          /\ capture' = CanonBytes(capture_start_pos',
                                    capture_start_pos' + Len(capture'))
          /\ (rpos' # rpos \/ rderr') =>
                 /\ capture' = capture \o CanonBytes(rpos, rpos')
                 /\ capture_start_pos' = capture_start_pos
          /\ Len(capture') < Len(capture) =>
                 (trimmed' # trimmed \/ taken' # <<>>)]_vars

\* After a trim above offset 0, a read has added bytes to a capture that was
\* not empty.
C9_Witness ==
    /\ ~panicked
    /\ trimmed # <<>> /\ trimmed[1].read /\ trimmed[1].pos > 0
    /\ capture_start_pos = trimmed[1].pos
    /\ Len(capture) >= 2
    /\ rpos > capture_start_pos + 1

\* C10: when take_to_end(p2) follows trim_to_start(p1), with only reads in
\* between and both offsets in range, it returns the bytes of the canonical
\* stream at [p1, p2), leaves capture_start_pos at p2, and leaves in the
\* capture every byte read at an offset from p2 on.
C10_TrimThenTake ==
    (taken # <<>> /\ taken[1].trimmed # <<>>) =>
        LET p1 == taken[1].trimmed[1].pos
            p2 == taken[1].pos
        IN  /\ p1 <= p2
            /\ taken[1].ret = CanonBytes(p1, p2)
            /\ capture_start_pos = p2
            /\ capture = CanonBytes(p2, rpos)

\* trim_to_start(1), then a read, then take_to_end(3) has returned two bytes
\* and left one in the capture.
C10_Witness ==
    /\ taken # <<>> /\ taken[1].trimmed # <<>>
    /\ taken[1].trimmed[1].pos = 1 /\ taken[1].trimmed[1].read
    /\ taken[1].pos = 3
    /\ Len(taken[1].ret) = 2
    /\ Len(capture) = 1

(***************************************************************************)
(* Chunker: the ReadState [reader, error] behind read_state, and the       *)
(* libyaml parser behind `parser`.  Of the parser the model keeps what the *)
(* Chunker depends on: [mark, eof, stream_end_produced, error, failing].   *)
(* mark is the offset the parser has got to, eof whether the read handler  *)
(* has reported the end of the input, error the parser's error field       *)
(* ("" is YAML_NO_ERROR), and failing whether yaml_parser_parse is on its  *)
(* way to return the failure of the read handler.                          *)
(***************************************************************************)
READ_FAILURE == 0

READ_SUCCESS == 1

\* The items of the Chunker: Option<io::Result<Vec<u8>>>.
ChunkNone == [tag |-> "None", bytes |-> <<>>, kind |-> ""]

ChunkOk(chunk) == [tag |-> "Ok", bytes |-> chunk, kind |-> ""]

\* kind is "Reader" for the error the underlying reader returned and
\* "InvalidData" for the error made of the parser's diagnostic.
ChunkErr(kind) == [tag |-> "Err", bytes |-> <<>>, kind |-> kind]

\* A mutant of read_callback_read: a read that succeeds leaves the stored
\* error where it is.
read_callback_read_sticky(state, r) ==
    IF r.res.tag = "Ok"
    THEN [self |-> [reader |-> r.self, error |-> state.error],
          ret |-> READ_SUCCESS, size_read |-> Len(r.res.bytes)]
    ELSE [self |-> [reader |-> r.self, error |-> <<ChunkErr("Reader")>>],
          ret |-> READ_FAILURE, size_read |-> 0]

\* read_callback after (*read_state).reader.read(buf) has returned `r`.
read_callback_read(state, r) ==
    IF r.res.tag = "Ok"
    THEN [self |-> [reader |-> r.self, error |-> <<>>],
          ret |-> READ_SUCCESS, size_read |-> Len(r.res.bytes)]
    ELSE [self |-> [reader |-> r.self, error |-> <<ChunkErr("Reader")>>],
          ret |-> READ_FAILURE, size_read |-> 0]

\* read_callback: rd is what the underlying reader returns to the read.
read_callback(state, rd) == read_callback_read(state, ChunkReader_read(state.reader, rd))

\* A mutant of Chunker_failed: the stored error is looked at and left where
\* it is, and the parser's diagnostic is returned.
Chunker_failed_parser(state) ==
    [self |-> state, ret |-> <<ChunkErr("InvalidData")>>, panicked |-> FALSE]

\* next when Event::from_parser has returned Err(()).
Chunker_failed(state) ==
    IF state.error # <<>>
    THEN [self |-> [state EXCEPT !.error = <<>>], ret |-> <<state.error[1]>>,
          panicked |-> FALSE]
    ELSE [self |-> state, ret |-> <<ChunkErr("InvalidData")>>, panicked |-> FALSE]

\* The arms of next once trim_to_start and take_to_end have returned `r`.
Chunker_trimmed(state, r) ==
    [self |-> [state EXCEPT !.reader = r.self], ret |-> <<>>, panicked |-> r.panicked]

Chunker_taken(state, r) ==
    [self |-> [state EXCEPT !.reader = r.self],
     ret |-> IF r.panicked THEN <<>> ELSE <<ChunkOk(r.ret)>>,
     panicked |-> r.panicked]

\* A mutant of Chunker_event: a document is taken to the start of its end
\* event.
Chunker_event_start(state, event, wraps) ==
    IF event.type = "YAML_STREAM_END_EVENT"
    THEN [self |-> state, ret |-> <<ChunkNone>>, panicked |-> FALSE]
    ELSE IF event.type = "YAML_DOCUMENT_START_EVENT"
    THEN Chunker_trimmed(state, trim_to_start(state.reader, event.start_mark, wraps))
    ELSE IF event.type = "YAML_DOCUMENT_END_EVENT"
    THEN Chunker_taken(state, take_to_end(state.reader, event.start_mark))
    ELSE [self |-> state, ret |-> <<>>, panicked |-> FALSE]

\* A mutant of Chunker_event: the end of the stream is returned as an empty
\* chunk.
Chunker_event_end(state, event, wraps) ==
    IF event.type = "YAML_STREAM_END_EVENT"
    THEN [self |-> state, ret |-> <<ChunkOk(<<>>)>>, panicked |-> FALSE]
    ELSE IF event.type = "YAML_DOCUMENT_START_EVENT"
    THEN Chunker_trimmed(state, trim_to_start(state.reader, event.start_mark, wraps))
    ELSE IF event.type = "YAML_DOCUMENT_END_EVENT"
    THEN Chunker_taken(state, take_to_end(state.reader, event.end_mark))
    ELSE [self |-> state, ret |-> <<>>, panicked |-> FALSE]

\* One turn of the loop of next once the parser has produced `event`: ret is
\* the Option of what next returns, None when the loop goes on.
Chunker_event(state, event, wraps) ==
    IF event.type = "YAML_STREAM_END_EVENT"
    THEN [self |-> state, ret |-> <<ChunkNone>>, panicked |-> FALSE]
    ELSE IF event.type = "YAML_DOCUMENT_START_EVENT"
    THEN Chunker_trimmed(state, trim_to_start(state.reader, event.start_mark, wraps))
    ELSE IF event.type = "YAML_DOCUMENT_END_EVENT"
    THEN Chunker_taken(state, take_to_end(state.reader, event.end_mark))
    ELSE [self |-> state, ret |-> <<>>, panicked |-> FALSE]

\* Event::from_parser: the Box is allocated; when yaml_parser_parse fails
\* the Box goes out of scope and is freed, otherwise it becomes an Event.
Event_from_parser(h, ok) ==
    [h EXCEPT !.event = [boxed |-> TRUE, made |-> ok, deleted |-> 0,
                         freed |-> IF ok THEN 0 ELSE 1, used_after |-> FALSE],
              !.live_events = IF ok THEN @ + 1 ELSE @]

\* Deref for Event: a field of the event is read.
Event_deref(h) ==
    [h EXCEPT !.event.used_after = @ \/ h.event.deleted > 0 \/ h.event.freed > 0]

\* Drop for Event: yaml_event_delete, and the Box is freed.
Event_drop(h) ==
    [h EXCEPT !.event.deleted = @ + 1,
              !.event.freed = @ + 1,
              !.live_events = IF h.event.freed = 0 THEN @ - 1 ELSE @]

\* A mutant of Chunker_next_event: the event leaves its scope undeleted.
Chunker_next_event_leak(h) ==
    Event_deref(Event_deref(Event_from_parser(h, TRUE)))

\* A turn of the loop of next with an event: type_ and a mark are read
\* while `event` is in scope, and it is dropped where the scope ends, at
\* the end of the turn, at a return or when a panic unwinds.
Chunker_next_event(h) ==
    Event_drop(Event_deref(Event_deref(Event_from_parser(h, TRUE))))

\* The turn of next in which Event::from_parser returns Err(()).
Chunker_next_failed(h) == Event_from_parser(h, FALSE)

\* Drop for Chunker.
Chunker_drop(h) ==
    [h EXCEPT !.parser.deleted = @ + 1,
              !.parser.freed = @ + 1,
              !.read_state.freed = @ + 1,
              !.dropped = TRUE]

(***************************************************************************)
(* SpecChunker: a Chunker over a stream of distinct bytes.  The parser is  *)
(* the environment: it calls the read handler while it has neither failed  *)
(* nor seen the end of the input, and produces events whose marks lie      *)
(* between the offset it has got to and the end of what it has read.       *)
(* `docs` lists the marks [s, e] of the documents produced so far, `open`  *)
(* holds the start mark of a document whose end is still to come,          *)
(* `results` lists what the calls of next have returned and `lastev` is    *)
(* the type of the event of the last turn of the loop.                     *)
(***************************************************************************)
ReadState == [reader |-> ChunkReader, error |-> error]

\* The stream: n distinct bytes.
KBytes(n) == [i \in 1..n |-> \h61 + i - 1]

\* The events yaml_parser_parse may produce in the state of the parser.
Events ==
    {[type |-> t, start_mark |-> parser.mark, end_mark |-> parser.mark] :
         t \in {"YAML_STREAM_START_EVENT", "YAML_SCALAR_EVENT"}}
    \cup {[type |-> "YAML_STREAM_END_EVENT", start_mark |-> rpos, end_mark |-> rpos] :
             x \in {y \in {0} : parser.eof /\ open = <<>>}}
    \cup {[type |-> "YAML_DOCUMENT_START_EVENT", start_mark |-> sm, end_mark |-> em] :
             sm \in {y \in parser.mark..rpos : open = <<>> /\ Len(docs) < MaxDocs},
             em \in {y \in parser.mark..rpos : open = <<>> /\ Len(docs) < MaxDocs}}
    \cup {[type |-> "YAML_DOCUMENT_END_EVENT", start_mark |-> sm, end_mark |-> em] :
             sm \in {y \in parser.mark..rpos : open # <<>>},
             em \in {y \in parser.mark..rpos : open # <<>>}}

KInit ==
    /\ canon \in {KBytes(n) : n \in 0..MaxCanon}
    /\ rpos = 0
    /\ capture = ChunkReader_new.capture
    /\ capture_start_pos = ChunkReader_new.capture_start_pos
    /\ panicked = FALSE
    /\ rderr = FALSE
    /\ trimmed = <<>>
    /\ taken = <<>>
    /\ KIdle
    /\ EIdle
    /\ UIdle
    /\ TIdle
    /\ DIdle
    /\ BIdle

\* The parser calls the read handler for more input.
KRead ==
    /\ ~heap.dropped
    /\ ~panicked
    /\ parser.error = ""
    /\ ~parser.stream_end_produced
    /\ ~parser.eof
    /\ \E n \in 1..MaxBuf :
         \E rd \in UnderlyingReturns(n) :
          \E r \in {read_callback(ReadState, rd)} :
             /\ capture' = r.self.reader.capture
             /\ capture_start_pos' = r.self.reader.capture_start_pos
             /\ error' = r.self.error
             /\ rpos' = rpos + r.size_read
             /\ rderr' = (r.ret = READ_FAILURE)
             /\ parser' = IF r.ret = READ_FAILURE
                          THEN [parser EXCEPT !.error = "YAML_READER_ERROR",
                                              !.failing = TRUE]
                          ELSE [parser EXCEPT !.eof = (r.size_read = 0)]
    /\ lastev' = ""
    /\ UNCHANGED <<canon, panicked, trimmed, taken, docs, open, results, heap>>
    /\ UNCHANGED <<tvars, dvars, evars, uvars, bvars>>

\* yaml_parser_parse returns the failure of the read handler to next.
KFail ==
    /\ ~heap.dropped
    /\ ~panicked
    /\ parser.failing
    /\ \E r \in {Chunker_failed(ReadState)} :
         /\ error' = r.self.error
         /\ results' = results \o r.ret
    /\ parser' = [parser EXCEPT !.failing = FALSE]
    /\ lastev' = ""
    /\ rderr' = FALSE
    /\ heap' = Chunker_next_failed(heap)
    /\ UNCHANGED <<canon, rpos, capture, capture_start_pos, panicked, trimmed, taken,
                   docs, open>>
    /\ UNCHANGED <<tvars, dvars, evars, uvars, bvars>>

\* yaml_parser_parse fails on the input it has read.
KParseFail ==
    /\ ~heap.dropped
    /\ ~panicked
    /\ parser.error = ""
    /\ ~parser.stream_end_produced
    /\ \E r \in {Chunker_failed(ReadState)} :
         /\ error' = r.self.error
         /\ results' = results \o r.ret
    /\ parser' = [parser EXCEPT !.error = "YAML_PARSER_ERROR"]
    /\ lastev' = ""
    /\ rderr' = FALSE
    /\ heap' = Chunker_next_failed(heap)
    /\ UNCHANGED <<canon, rpos, capture, capture_start_pos, panicked, trimmed, taken,
                   docs, open>>
    /\ UNCHANGED <<tvars, dvars, evars, uvars, bvars>>

\* yaml_parser_parse produces an event and next goes through one turn of
\* its loop.
KEvent ==
    /\ ~heap.dropped
    /\ ~panicked
    /\ parser.error = ""
    /\ ~parser.stream_end_produced
    /\ \E event \in Events, wraps \in BOOLEAN :
         \E r \in {Chunker_event(ReadState, event, wraps)} :
             /\ capture' = r.self.reader.capture
             /\ capture_start_pos' = r.self.reader.capture_start_pos
             /\ error' = r.self.error
             /\ panicked' = r.panicked
             /\ results' = results \o r.ret
             /\ lastev' = event.type
             /\ parser' =
                  IF event.type = "YAML_STREAM_END_EVENT"
                  THEN [parser EXCEPT !.stream_end_produced = TRUE]
                  ELSE IF event.type = "YAML_DOCUMENT_START_EVENT"
                  THEN [parser EXCEPT !.mark = event.start_mark]
                  ELSE IF event.type = "YAML_DOCUMENT_END_EVENT"
                  THEN [parser EXCEPT !.mark = event.end_mark]
                  ELSE parser
             /\ open' = IF event.type = "YAML_DOCUMENT_START_EVENT"
                        THEN <<event.start_mark>>
                        ELSE IF event.type = "YAML_DOCUMENT_END_EVENT"
                        THEN <<>>
                        ELSE open
             /\ docs' = IF event.type = "YAML_DOCUMENT_END_EVENT"
                        THEN Append(docs, [s |-> open[1], e |-> event.end_mark])
                        ELSE docs
    /\ rderr' = FALSE
    /\ heap' = Chunker_next_event(heap)
    /\ UNCHANGED <<canon, rpos, trimmed, taken>>
    /\ UNCHANGED <<tvars, dvars, evars, uvars, bvars>>

\* next is called after the end of the stream or after a failure:
\* yaml_parser_parse succeeds with an event of no type, and next goes
\* through a turn of its loop that returns nothing.
KIdleEvent ==
    /\ ~heap.dropped
    /\ ~panicked
    /\ parser.stream_end_produced \/ (parser.error # "" /\ ~parser.failing)
    /\ \E r \in {Chunker_event(ReadState, [type |-> "YAML_NO_EVENT", start_mark |-> 0,
                                             end_mark |-> 0], FALSE)} :
         /\ capture' = r.self.reader.capture
         /\ capture_start_pos' = r.self.reader.capture_start_pos
         /\ error' = r.self.error
         /\ panicked' = r.panicked
         /\ results' = results \o r.ret
    /\ lastev' = "YAML_NO_EVENT"
    /\ rderr' = FALSE
    /\ heap' = Chunker_next_event(heap)
    /\ UNCHANGED <<canon, rpos, trimmed, taken, parser, docs, open>>
    /\ UNCHANGED <<tvars, dvars, evars, uvars, bvars>>

\* The Chunker goes out of scope: after None, after an error, midway or
\* when a panic unwinds.
KDrop ==
    /\ ~heap.dropped
    /\ heap' = Chunker_drop(heap)
    /\ UNCHANGED <<error, parser, docs, open, results, lastev>>
    /\ UNCHANGED <<tvars, dvars, cvars, evars, uvars, bvars>>

KNext == KRead \/ KFail \/ KParseFail \/ KEvent \/ KIdleEvent \/ KDrop

SpecChunker == KInit /\ [][KNext]_vars

\* C11: the calls of next yield one chunk for each document-end event, in
\* the order of the stream, the i-th chunk being the bytes [s_i, e_i) of the
\* canonical stream whatever the parser has read ahead; no byte before s_i
\* is in the chunk, and the events of other kinds yield nothing: besides
\* the chunks there is at most the one result that ends the sequence.
C11_OneChunkPerDocument ==
    /\ ~panicked
    /\ Len(results) \in {Len(docs), Len(docs) + 1}
    /\ \A i \in 1..Len(docs) :
         results[i] = ChunkOk(CanonBytes(docs[i].s, docs[i].e))
    /\ Len(results) = Len(docs) + 1 =>
         /\ results[Len(results)].tag # "Ok"
         /\ parser.stream_end_produced \/ parser.error # ""

\* Two documents with material before each and between them, read ahead of
\* the first document's end, and then the end of the stream.
C11_Witness ==
    /\ Len(docs) = 2
    /\ 0 < docs[1].s /\ docs[1].s < docs[1].e
    /\ docs[1].e < docs[2].s /\ docs[2].s < docs[2].e
    /\ results = <<ChunkOk(CanonBytes(docs[1].s, docs[1].e)),
                   ChunkOk(CanonBytes(docs[2].s, docs[2].e)), ChunkNone>>
    /\ lastev = "YAML_STREAM_END_EVENT"

(***************************************************************************)
(* SpecEmpty: a Transcoder and a Chunker, each over an input of at most    *)
(* one byte: the empty input and, next to it, the shortest inputs that are *)
(* not empty.                                                              *)
(***************************************************************************)
EInit ==
    /\ TInit
    /\ Len(src.bytes) <= 1

ENext == TNext \/ KNext

SpecEmpty == EInit /\ [][ENext]_vars

\* C12: on an empty input every read of the Transcoder, the first included,
\* returns Ok with 0 bytes, through from_reader and through new with any
\* encoding; and when the parser produces no document before the end of
\* the stream, the one result of the Chunker is the None of the first call
\* of next.
C12_EmptyInput ==
    /\ (pc = "ready" /\ src.bytes = <<>>) => (out = <<>> /\ ~failed)
    /\ (parser.stream_end_produced /\ docs = <<>>) => results = <<ChunkNone>>

\* An empty input read to its end through from_reader, and a Chunker that
\* was given the end of the stream and nothing before it.
C12_Witness ==
    /\ src.bytes = <<>>
    /\ src.mode = "from_reader"
    /\ pc = "ready"
    /\ eof
    /\ canon = <<>>
    /\ parser.stream_end_produced
    /\ docs = <<>>
    /\ results = <<ChunkNone>>

\* The step in which yaml_parser_parse returns a failure to next.
ParseFails ==
    /\ parser.error = "" \/ parser.failing
    /\ parser'.error # ""
    /\ ~parser'.failing

\* C13: when the parser fails, next returns Some(Err(e)): e is the error of
\* the underlying reader if the most recent read callback failed, and
\* otherwise the InvalidData error made of the parser's diagnostic; the
\* call returns neither None nor a chunk, and the stored error is taken.
C13_ErrorSelection ==
    [][ParseFails =>
          /\ results' = Append(results, ChunkErr(IF rderr THEN "Reader"
                                                          ELSE "InvalidData"))
          /\ error' = <<>>]_vars

\* A read callback that failed after others had succeeded and a document
\* had been returned, and the call of next that returned its error.
C13_Witness ==
    /\ parser.error = "YAML_READER_ERROR"
    /\ ~parser.failing
    /\ rpos > 0
    /\ Len(results) = 2
    /\ results[1].tag = "Ok"
    /\ results[2] = ChunkErr("Reader")
    /\ error = <<>>

(***************************************************************************)
(* SpecEncoder: a UTF8Encoder over a decoder over the bytes of a text, in  *)
(* each of the four encodings that are decoded, and reads of any size.     *)
(***************************************************************************)
Decoded == {"UTF16BE", "UTF16LE", "UTF32BE", "UTF32LE"}

SInit ==
    /\ \E E \in Decoded :
         \E T \in Texts(E) :
            /\ esrc = [text |-> T, enc |-> E, bytes |-> encode_text(T, E)]
            /\ encoder = Transcoder_new(Bare(encode_text(T, E)), E).inner
    /\ eout = <<>>
    /\ elast = <<>>
    /\ efailed = 0
    /\ eeof = FALSE
    /\ TIdle
    /\ DIdle
    /\ CIdle
    /\ KIdle
    /\ UIdle
    /\ BIdle

\* A call of UTF8Encoder::read with a buffer of n bytes.
SRead ==
    /\ \E n \in ReadSizes :
         \E r \in {UTF8Encoder_read(encoder, n)} :
            /\ encoder' = r.self
            /\ eout' = eout \o r.res.bytes
            /\ elast' = <<[n |-> n, res |-> r.res]>>
            /\ efailed' = efailed + (IF r.res.tag = "Err" THEN 1 ELSE 0)
            /\ eeof' = (eeof \/ (n > 0 /\ r.res.tag = "Ok" /\ r.res.bytes = <<>>))
    /\ UNCHANGED esrc
    /\ UNCHANGED <<tvars, dvars, cvars, kvars, uvars, bvars>>

SNext == SRead

SpecEncoder == SInit /\ [][SNext]_vars

\* The scalar values among the items of a text.
RECURSIVE ScalarsOf(_)
ScalarsOf(T) ==
    IF T = <<>> THEN <<>>
    ELSE (IF IsScalar(Head(T)) THEN <<Head(T)>> ELSE <<>>) \o ScalarsOf(Tail(T))

C15_ZeroRead ==
    [][(elast' # <<>> /\ elast'[1].n = 0) =>
          /\ elast'[1].res = ReadOk(<<>>)
          /\ encoder' = encoder]_vars

\* A read of length 0 made while the remainder holds bytes of a character
\* and the source has more to give.
C15_Witness ==
    /\ elast # <<>>
    /\ elast[1].n = 0
    /\ esrc.text # <<>>
    /\ ~is_empty(encoder.remainder)
    /\ Len(encoder.source.source.second) > 0

(***************************************************************************)
(* The decoders of encode.rs, the module that main.rs builds: they have    *)
(* the fields and the control flow of the decoders of encoding.rs without  *)
(* the byte counter.                                                       *)
(***************************************************************************)
REPLACEMENT_CHARACTER == \hFFFD

encode_UTF16Decoder_new(source, endianness) ==
    [source |-> source, endianness |-> endianness, buf |-> <<>>]

\* next_u16 after read_exact has returned `rd`, and after fill_buf has
\* returned `fb`.
encode_next_u16_read(self, rd) ==
    IF ~rd.ok
    THEN [self |-> [self EXCEPT !.source = rd.self], ok |-> FALSE, unit |-> <<>>]
    ELSE [self |-> [self EXCEPT !.source = rd.self],
          ok |-> TRUE,
          unit |-> <<decode_u16(self.endianness, rd.bytes)>>]

encode_next_u16_filled(self, fb) ==
    IF fb.empty
    THEN [self |-> [self EXCEPT !.source = fb.self], ok |-> TRUE, unit |-> <<>>]
    ELSE encode_next_u16_read(self, read_exact(fb.self, 2, <<>>))

encode_next_u16(self) == encode_next_u16_filled(self, Chain_fill_buf(self.source))

\* The end of next: `tr` is what next_u16 returned for the trailing unit.
encode_UTF16Decoder_trail(lead, tr) ==
    IF ~tr.ok
    THEN [self |-> tr.self, item |-> UnexpectedEof]
    ELSE IF tr.unit = <<>>
    THEN [self |-> tr.self, item |-> Ok(REPLACEMENT_CHARACTER)]
    ELSE IF ~(\hDC00 <= tr.unit[1] /\ tr.unit[1] <= \hDFFF)
    THEN [self |-> [tr.self EXCEPT !.buf = tr.unit],
          item |-> Ok(REPLACEMENT_CHARACTER)]
    ELSE [self |-> tr.self,
          item |-> Ok(\h10000 + ((lead - \hD800) * 1024 + (tr.unit[1] - \hDC00)))]

\* The rest of next once the leading unit is known.
encode_UTF16Decoder_lead(self, lead) ==
    IF ~IsSurrogate(lead)
    THEN [self |-> self, item |-> Ok(lead)]
    ELSE IF lead >= \hDC00
    THEN [self |-> self, item |-> Ok(REPLACEMENT_CHARACTER)]
    ELSE encode_UTF16Decoder_trail(lead, encode_next_u16(self))

\* next when the lookahead is empty: `nx` is what next_u16 returned.
encode_UTF16Decoder_read_lead(nx) ==
    IF ~nx.ok
    THEN [self |-> nx.self, item |-> UnexpectedEof]
    ELSE IF nx.unit = <<>>
    THEN [self |-> nx.self, item |-> None]
    ELSE encode_UTF16Decoder_lead(nx.self, nx.unit[1])

\* Iterator::next for the UTF16Decoder of encode.rs.
encode_UTF16Decoder_next(self) ==
    IF self.buf # <<>>
    THEN encode_UTF16Decoder_lead([self EXCEPT !.buf = <<>>], self.buf[1])
    ELSE encode_UTF16Decoder_read_lead(encode_next_u16(self))

encode_UTF32Decoder_new(source, endianness) ==
    [source |-> source, endianness |-> endianness]

\* next after read_exact has returned `rd`, and after fill_buf has returned
\* `fb`.
encode_UTF32Decoder_read(self, rd) ==
    LET ch == char_from_u32(decode_u32(self.endianness, rd.bytes))
    IN  IF ~rd.ok
        THEN [self |-> [self EXCEPT !.source = rd.self], item |-> UnexpectedEof]
        ELSE [self |-> [self EXCEPT !.source = rd.self],
              item |-> IF ch # <<>> THEN Ok(ch[1]) ELSE Ok(REPLACEMENT_CHARACTER)]

encode_UTF32Decoder_filled(self, fb) ==
    IF fb.empty
    THEN [self |-> [self EXCEPT !.source = fb.self], item |-> None]
    ELSE encode_UTF32Decoder_read(self, read_exact(fb.self, 4, <<>>))

\* Iterator::next for the UTF32Decoder of encode.rs.
encode_UTF32Decoder_next(self) ==
    encode_UTF32Decoder_filled(self, Chain_fill_buf(self.source))

(***************************************************************************)
(* SpecDecoder: a decoder of encoding.rs or of encode.rs over the bytes of *)
(* a sequence of code units, cut short or not, and calls of next.          *)
(***************************************************************************)
\* The code units of the sources: a BMP scalar value, U+FFFD, a high and a
\* low surrogate, and for UTF-32 a value above the last scalar value and the
\* value that U+0041 is in the other byte order.
Units(width) ==
    IF width = 16 THEN {\h41, \hFFFD, \hD83D, \hDE00}
    ELSE {\h41, \hFFFD, \hDE00, \h110000, \h41000000}

\* The bytes of a sequence of code units.
RECURSIVE unit_bytes(_, _, _)
unit_bytes(U, width, endianness) ==
    IF U = <<>> THEN <<>>
    ELSE (IF width = 16
          THEN (IF endianness = "Big" THEN be16(Head(U)) ELSE le16(Head(U)))
          ELSE (IF endianness = "Big" THEN be32(Head(U)) ELSE le32(Head(U))))
         \o unit_bytes(Tail(U), width, endianness)

UInit ==
    /\ \E width \in {16, 32}, endianness \in {"Big", "Little"},
          module \in {"encoding", "encode"}, trunc \in 0..MaxTrunc :
         \E U \in UNION {[1..n -> Units(width)] : n \in 0..MaxUnits} :
            LET full  == unit_bytes(U, width, endianness)
                bytes == Take(full, Len(full) - trunc)
            IN  /\ trunc <= Len(full)
                /\ usrc = [units |-> U, width |-> width, endianness |-> endianness,
                           module |-> module, bytes |-> bytes]
                /\ decoder =
                     IF module = "encoding"
                     THEN (IF width = 16
                           THEN UTF16Decoder_new(Bare(bytes), endianness)
                           ELSE UTF32Decoder_new(Bare(bytes), endianness))
                     ELSE (IF width = 16
                           THEN encode_UTF16Decoder_new(Bare(bytes), endianness)
                           ELSE encode_UTF32Decoder_new(Bare(bytes), endianness))
    /\ yielded = <<>>
    /\ TIdle
    /\ DIdle
    /\ CIdle
    /\ KIdle
    /\ EIdle
    /\ BIdle

\* The calls of next that a run makes: enough to reach the end of every
\* source and to call again after it.
MayCall == Len(yielded) < MaxUnits + 2

Next16 ==
    /\ MayCall
    /\ usrc.module = "encoding"
    /\ usrc.width = 16
    /\ \E r \in {UTF16Decoder_next(decoder)} :
         /\ decoder' = r.self
         /\ yielded' = Append(yielded, r.item)
    /\ UNCHANGED usrc
    /\ UNCHANGED <<tvars, dvars, cvars, kvars, evars, bvars>>

Next32 ==
    /\ MayCall
    /\ usrc.module = "encoding"
    /\ usrc.width = 32
    /\ \E r \in {UTF32Decoder_next(decoder)} :
         /\ decoder' = r.self
         /\ yielded' = Append(yielded, r.item)
    /\ UNCHANGED usrc
    /\ UNCHANGED <<tvars, dvars, cvars, kvars, evars, bvars>>

EncodeNext16 ==
    /\ MayCall
    /\ usrc.module = "encode"
    /\ usrc.width = 16
    /\ \E r \in {encode_UTF16Decoder_next(decoder)} :
         /\ decoder' = r.self
         /\ yielded' = Append(yielded, r.item)
    /\ UNCHANGED usrc
    /\ UNCHANGED <<tvars, dvars, cvars, kvars, evars, bvars>>

EncodeNext32 ==
    /\ MayCall
    /\ usrc.module = "encode"
    /\ usrc.width = 32
    /\ \E r \in {encode_UTF32Decoder_next(decoder)} :
         /\ decoder' = r.self
         /\ yielded' = Append(yielded, r.item)
    /\ UNCHANGED usrc
    /\ UNCHANGED <<tvars, dvars, cvars, kvars, evars, bvars>>

UNext == Next16 \/ Next32 \/ EncodeNext16 \/ EncodeNext32

SpecDecoder == UInit /\ [][UNext]_vars

\* The bytes the decoder has taken from its source, and the code unit that
\* begins there, if all its bytes are in the source.
Consumed == Len(usrc.bytes) - Len(decoder.source.second)

HasUnit == Consumed + (usrc.width \div 8) <= Len(usrc.bytes)

TheUnit == usrc.units[(Consumed \div (usrc.width \div 8)) + 1]

IsLow(u) == \hDC00 <= u /\ u <= \hDFFF

IsHigh(u) == \hD800 <= u /\ u <= \hDBFF

\* The UTF16Decoder of encoding.rs is about to read a leading unit.
Utf16AtLead ==
    /\ usrc.module = "encoding"
    /\ usrc.width = 16
    /\ decoder.buf = <<>>
    /\ HasUnit

\* C16: a low surrogate that the UTF-16 decoder meets with no lead pending
\* yields an error that carries the unit's value and the byte offset at
\* which the unit starts, and the decoder is left at the unit that follows:
\* two bytes on, with nothing held back.
C16_UnpairedLow ==
    [][(Utf16AtLead /\ IsLow(TheUnit)) =>
          /\ yielded' = Append(yielded, EncodingError(16, <<0, TheUnit>>, Consumed))
          /\ Consumed' = Consumed + 2
          /\ decoder'.buf = <<>>]_vars

\* The units 0041 DE00 0041, big-endian: the error of the low surrogate at
\* offset 2 between the two characters.
C16_Witness ==
    /\ usrc.module = "encoding"
    /\ usrc.units = <<\h41, \hDE00, \h41>>
    /\ usrc.endianness = "Big"
    /\ usrc.bytes = <<0, \h41, \hDE, 0, 0, \h41>>
    /\ yielded = <<Ok(\h41), EncodingError(16, <<0, \hDE00>>, 2), Ok(\h41)>>

\* The number of elements of a sequence that are equal to x.
Count(seq, x) == Cardinality({i \in 1..Len(seq) : seq[i] = x})

\* No U+FFFD among the items but those the source encodes.
NoSubstitution == Count(yielded, Ok(REPLACEMENT_CHARACTER)) <= Count(usrc.units, REPLACEMENT_CHARACTER)

\* C17: no decoder of the repository puts a substitute in the place of an
\* invalid code unit: U+FFFD is among the items a decoder has yielded only
\* where the source encodes U+FFFD, and no more often.
C17_NoSubstitution == NoSubstitution

\* The same of the decoders of encoding.rs alone, where it holds.
C17_NoSubstitution_encoding == (usrc.module = "encoding") => NoSubstitution

\* C18: a fault is reported once and ends its sequence: once a read of the
\* Transcoder has returned Err, no later read returns bytes.
C18_FaultEndsSequence == [][failed => out' = out]_vars

\* The same of the Chunker, where it holds: once next has returned
\* Some(Err), no call adds a result.
C18_FaultEndsSequence_Chunker ==
    [][(results # <<>> /\ results[Len(results)].tag = "Err") => results' = results]_vars

(***************************************************************************)
(* The ChunkReader built for a target whose usize has 32 bits.  An offset  *)
(* is a u64, here the pair <<high, low>> of its 32-bit halves; the low     *)
(* halves of the model are below 2^31.  `as usize` keeps the low half of   *)
(* the difference: low(pos) - low(capture_start_pos) when that is not      *)
(* below 0, and otherwise a value of at least 2^31, which is more than a   *)
(* Vec can hold on such a target.                                          *)
(***************************************************************************)
\* pos < capture_start_pos, of two u64.
u64_less(a, b) == a[1] < b[1] \/ (a[1] = b[1] /\ a[2] < b[2])

\* trim_to_start: the subtraction panics below 0 where the build checks
\* overflow; capture_start_pos is assigned before drain(..n), which panics
\* when n is more than capture.len().
trim_to_start_usize32(self, pos, wraps) ==
    LET excess_start_len == pos[2] - self.capture_start_pos[2]
    IN  IF u64_less(pos, self.capture_start_pos) /\ ~wraps
        THEN [self |-> self, panicked |-> TRUE]
        ELSE IF excess_start_len < 0 \/ excess_start_len > Len(self.capture)
        THEN [self |-> [self EXCEPT !.capture_start_pos = pos], panicked |-> TRUE]
        ELSE [self |-> [capture |-> Drop(self.capture, excess_start_len),
                        capture_start_pos |-> pos],
              panicked |-> FALSE]

\* take_to_end: split_off(n) panics when n is more than capture.len(), before
\* anything is assigned.
take_to_end_usize32(self, pos, wraps) ==
    LET take_len == pos[2] - self.capture_start_pos[2]
    IN  IF u64_less(pos, self.capture_start_pos) /\ ~wraps
        THEN [self |-> self, ret |-> <<>>, panicked |-> TRUE]
        ELSE IF take_len < 0 \/ take_len > Len(self.capture)
        THEN [self |-> self, ret |-> <<>>, panicked |-> TRUE]
        ELSE [self |-> [capture |-> Drop(self.capture, take_len),
                        capture_start_pos |-> pos],
              ret |-> Take(self.capture, take_len),
              panicked |-> FALSE]

(***************************************************************************)
(* SpecChunk32: the ChunkReader of a 32-bit target over a stream of        *)
(* distinct bytes, with reads and calls of trim_to_start and take_to_end   *)
(* at offsets below and above 2^32.                                        *)
(***************************************************************************)
Offsets32 == {<<h, l>> : h \in 0..1, l \in Offsets}

C32Init ==
    /\ canon \in {KBytes(n) : n \in 0..MaxCanon}
    /\ rpos = 0
    /\ capture = <<>>
    /\ capture_start_pos = <<0, 0>>
    /\ panicked = FALSE
    /\ rderr = FALSE
    /\ trimmed = <<>>
    /\ taken = <<>>
    /\ TIdle
    /\ DIdle
    /\ KIdle
    /\ EIdle
    /\ UIdle
    /\ BIdle

C32Trim ==
    /\ ~panicked
    /\ \E pos \in Offsets32, wraps \in BOOLEAN :
         \E r \in {trim_to_start_usize32(ChunkReader, pos, wraps)} :
             /\ capture' = r.self.capture
             /\ capture_start_pos' = r.self.capture_start_pos
             /\ panicked' = r.panicked
             /\ trimmed' = IF r.panicked THEN <<>>
                           ELSE <<[pos |-> pos, read |-> FALSE]>>
    /\ rderr' = FALSE
    /\ taken' = <<>>
    /\ UNCHANGED <<canon, rpos>>
    /\ UNCHANGED <<tvars, dvars, kvars, evars, uvars, bvars>>

C32Take ==
    /\ ~panicked
    /\ \E pos \in Offsets32, wraps \in BOOLEAN :
         \E r \in {take_to_end_usize32(ChunkReader, pos, wraps)} :
             /\ capture' = r.self.capture
             /\ capture_start_pos' = r.self.capture_start_pos
             /\ panicked' = r.panicked
             /\ taken' = IF r.panicked THEN <<>>
                         ELSE <<[trimmed |-> <<>>, pos |-> pos, ret |-> r.ret]>>
    /\ trimmed' = <<>>
    /\ rderr' = FALSE
    /\ UNCHANGED <<canon, rpos>>
    /\ UNCHANGED <<tvars, dvars, kvars, evars, uvars, bvars>>

\* A read leaves the histories of the last call empty.
C32Read ==
    /\ ~panicked
    /\ \E n \in 0..MaxBuf :
         \E rd \in UnderlyingReturns(n) :
          \E r \in {ChunkReader_read(ChunkReader, rd)} :
             /\ capture' = r.self.capture
             /\ capture_start_pos' = r.self.capture_start_pos
             /\ rpos' = rpos + Len(rd.bytes)
             /\ rderr' = (r.res.tag = "Err")
    /\ trimmed' = <<>>
    /\ taken' = <<>>
    /\ UNCHANGED <<canon, panicked>>
    /\ UNCHANGED <<tvars, dvars, kvars, evars, uvars, bvars>>

C32Next == C32Read \/ C32Trim \/ C32Take

SpecChunk32 == C32Init /\ [][C32Next]_vars

\* pos is neither below capture_start_pos nor above capture_start_pos +
\* capture.len(), of u64 whose low halves are those of the model.
InRange32(pos) ==
    /\ pos[1] = capture_start_pos[1]
    /\ capture_start_pos[2] <= pos[2]
    /\ pos[2] <= capture_start_pos[2] + Len(capture)

\* C19: a call of trim_to_start(pos) or take_to_end(pos) with pos below
\* capture_start_pos or above capture_start_pos + capture.len() panics: a
\* call that has returned was made with an offset in range.
C19_OutOfRangePanics ==
    [][/\ trimmed' # <<>> => InRange32(trimmed'[1].pos)
       /\ taken' # <<>> => InRange32(taken'[1].pos)]_vars

\* The same on a target whose usize has 64 bits, where it holds: a call
\* out of range of SpecChunk panics.
C19_OutOfRangePanics_usize64 ==
    [][/\ (trimmed' # <<>> /\ ~trimmed'[1].read /\ rpos' = rpos /\ ~rderr') =>
            (capture_start_pos <= trimmed'[1].pos
               /\ trimmed'[1].pos <= capture_start_pos + Len(capture))
       /\ taken' # <<>> =>
            (capture_start_pos <= taken'[1].pos
               /\ taken'[1].pos <= capture_start_pos + Len(capture))]_vars

\* The UTF16Decoder of encoding.rs begins a call with a high surrogate as
\* its lead: the one in the lookahead, or the next unit of the source.
HighPending ==
    /\ usrc.module = "encoding"
    /\ usrc.width = 16
    /\ IF decoder.buf # <<>> THEN IsHigh(decoder.buf[1]) ELSE (HasUnit /\ IsHigh(TheUnit))

\* The offset of the unit after that lead, whether all of it is in the
\* source, and the unit.
TrailOffset == IF decoder.buf # <<>> THEN Consumed ELSE Consumed + 2

HasTrail == TrailOffset + 2 <= Len(usrc.bytes)

TrailUnit == usrc.units[(TrailOffset \div 2) + 1]

\* C20: when a high surrogate is followed by a unit U that is no low
\* surrogate, the call yields one error with U's value and the offset at
\* which U starts, reads no byte after U and keeps U in the lookahead; the
\* next call decodes U as a lead: a unit that is no surrogate is yielded as
\* its scalar value without a read, and a high surrogate pairs with the low
\* surrogate that follows.  The lookahead holds at most one unit, never a
\* low surrogate, and pos is twice the number of units read.
C20_Resync ==
    [][(usrc.module = "encoding" /\ usrc.width = 16) =>
          /\ (HighPending /\ HasTrail /\ ~IsLow(TrailUnit)) =>
                /\ yielded' = Append(yielded,
                                      EncodingError(16, <<0, TrailUnit>>, TrailOffset))
                /\ decoder'.buf = <<TrailUnit>>
                /\ Consumed' = TrailOffset + 2
          /\ (decoder.buf # <<>> /\ ~IsSurrogate(decoder.buf[1])) =>
                /\ yielded' = Append(yielded, Ok(decoder.buf[1]))
                /\ decoder'.buf = <<>>
                /\ Consumed' = Consumed
          /\ (decoder.buf # <<>> /\ HighPending /\ HasTrail /\ IsLow(TrailUnit)) =>
                /\ yielded' = Append(yielded,
                        Ok(\h10000 + (decoder.buf[1] - \hD800) * 1024 + (TrailUnit - \hDC00)))
                /\ decoder'.buf = <<>>
          /\ Len(decoder'.buf) <= 1
          /\ decoder'.buf # <<>> => ~IsLow(decoder'.buf[1])
          /\ decoder'.pos = 2 * (Consumed' \div 2)]_vars

\* The units D83D D83D DE00: the error of the second unit at offset 2, and
\* then the pair that the second unit begins.
C20_Witness ==
    /\ usrc.module = "encoding"
    /\ usrc.units = <<\hD83D, \hD83D, \hDE00>>
    /\ Len(usrc.bytes) = 6
    /\ yielded = <<EncodingError(16, <<0, \hD83D>>, 2), Ok(\h1F600)>>
    /\ decoder.pos = 6

\* The bytes the source of the decoder has left, and whether a decoder of
\* encoding.rs holds a unit in its lookahead.
Remaining == Len(usrc.bytes) - Consumed

Holding == usrc.width = 16 /\ decoder.buf # <<>>

\* C21: a truncated input does not end the sequence in silence.  A call
\* that begins with a high surrogate and finds no whole unit after it
\* yields an unexpected-end error; a call that finds less than a whole unit
\* yields the error of the read; and a call yields None only when the
\* source has no byte left and no unit is held, which in a source that was
\* cut inside a unit is the case only after the error has been yielded.
C21_TruncationReported ==
    [][(usrc.module = "encoding") =>
          /\ (HighPending /\ ~HasTrail) => yielded' = Append(yielded, UnexpectedEof)
          /\ (~Holding /\ 0 < Remaining /\ ~HasUnit) =>
                yielded' = Append(yielded, UnexpectedEof)
          /\ yielded' = Append(yielded, None) =>
                /\ Remaining = 0
                /\ ~Holding
                /\ (Len(usrc.bytes) % (usrc.width \div 8) # 0) =>
                      \E j \in 1..Len(yielded) : yielded[j] = UnexpectedEof]_vars

\* The units 0041 D83D and nothing after the high surrogate: a character,
\* the error, and then the end.
C21_Witness ==
    /\ usrc.module = "encoding"
    /\ usrc.units = <<\h41, \hD83D>>
    /\ Len(usrc.bytes) = 4
    /\ yielded = <<Ok(\h41), UnexpectedEof, None>>

\* C22: the UTF-32 decoder yields Ok(scalar) for a unit exactly when its
\* value, read in the byte order of the decoder, is at most 0x10FFFF and
\* no surrogate; for any other unit it yields an error with the raw value
\* and the offset at which the unit starts, which is 4 times the number of
\* units read before it; and in both cases it moves past the unit.
C22_Utf32Validation ==
    [][(usrc.module = "encoding" /\ usrc.width = 32 /\ HasUnit) =>
          /\ Consumed = 4 * Len(yielded)
          /\ yielded' = Append(yielded,
                 IF TheUnit <= \h10FFFF /\ ~(\hD800 <= TheUnit /\ TheUnit <= \hDFFF)
                 THEN Ok(TheUnit)
                 ELSE EncodingError(32, <<TheUnit \div 65536, TheUnit % 65536>>,
                                    4 * Len(yielded)))
          /\ Consumed' = Consumed + 4
          /\ decoder'.pos = Consumed']_vars

\* Little-endian 0041, DE00, 00110000: a character, and the errors of a
\* surrogate at offset 4 and of a value above 0x10FFFF at offset 8.
C22_Witness ==
    /\ usrc.module = "encoding"
    /\ usrc.width = 32
    /\ usrc.endianness = "Little"
    /\ usrc.units = <<\h41, \hDE00, \h110000>>
    /\ yielded = <<Ok(\h41), EncodingError(32, <<0, \hDE00>>, 4),
                   EncodingError(32, <<\h11, 0>>, 8)>>

(***************************************************************************)
(* SpecBuffer: an ArrayBuffer<SIZE> under any sequence of calls of set,    *)
(* read, write, fill_buf and consume.  unread() is                         *)
(* &self.buf[self.pos..self.len], which panics when pos is above len; set  *)
(* panics on a slice longer than SIZE, by the debug assertion or by the    *)
(* slice index.                                                            *)
(***************************************************************************)
MaxSlice == 5

\* BufRead::fill_buf for ArrayBuffer.
ArrayBuffer_fill_buf(self) == unread(self)

\* BufRead::consume for ArrayBuffer.
ArrayBuffer_consume(self, amt) == [self EXCEPT !.pos = self.pos + amt]

\* The slices the callers pass: the windows of MaxSlice bytes of two
\* values in turn.
Slices ==
    {SubSeq([k \in 1..MaxSlice |-> \h61 + (k % 2)], i, j) :
         i \in 1..(MaxSlice + 1), j \in 0..MaxSlice}

unread_panics(self) == self.pos > self.len

BCall(op, arg, n, ret, bytes) ==
    [op |-> op, arg |-> arg, n |-> n, ret |-> ret, bytes |-> bytes]

BInit ==
    /\ BIdle
    /\ TIdle
    /\ DIdle
    /\ CIdle
    /\ KIdle
    /\ EIdle
    /\ UIdle

BSet ==
    /\ ~bpanicked
    /\ \E b \in Slices :
          /\ bret' = BCall("set", b, Len(b), 0, <<>>)
          /\ IF Len(b) > SIZE
             THEN bpanicked' = TRUE /\ buffer' = buffer
             ELSE bpanicked' = FALSE /\ buffer' = set(buffer, b)
    /\ UNCHANGED <<tvars, dvars, cvars, kvars, evars, uvars>>

BRead ==
    /\ ~bpanicked
    /\ \E n \in 0..MaxSlice :
          IF unread_panics(buffer)
          THEN /\ bpanicked' = TRUE
               /\ buffer' = buffer
               /\ bret' = BCall("read", <<>>, n, 0, <<>>)
          ELSE \E r \in {ArrayBuffer_read(buffer, n)} :
                  /\ bpanicked' = FALSE
                  /\ buffer' = r.self
                  /\ bret' = BCall("read", <<>>, n, Len(r.bytes), r.bytes)
    /\ UNCHANGED <<tvars, dvars, cvars, kvars, evars, uvars>>

BWrite ==
    /\ ~bpanicked
    /\ \E b \in Slices :
       \E r \in {ArrayBuffer_write(buffer, b)} :
          /\ buffer' = r.self
          /\ bret' = BCall("write", b, Len(b), r.n, <<>>)
    /\ UNCHANGED bpanicked
    /\ UNCHANGED <<tvars, dvars, cvars, kvars, evars, uvars>>

BFillBuf ==
    /\ ~bpanicked
    /\ IF unread_panics(buffer)
       THEN /\ bpanicked' = TRUE
            /\ bret' = BCall("fill_buf", <<>>, 0, 0, <<>>)
       ELSE /\ bpanicked' = FALSE
            /\ bret' = BCall("fill_buf", <<>>, 0, Len(ArrayBuffer_fill_buf(buffer)),
                             ArrayBuffer_fill_buf(buffer))
    /\ UNCHANGED buffer
    /\ UNCHANGED <<tvars, dvars, cvars, kvars, evars, uvars>>

\* The model stops consuming when pos would pass SIZE + MaxSlice.
BConsume ==
    /\ ~bpanicked
    /\ \E amt \in 0..MaxSlice :
          /\ buffer.pos + amt <= SIZE + MaxSlice
          /\ buffer' = ArrayBuffer_consume(buffer, amt)
          /\ bret' = BCall("consume", <<>>, amt, 0, <<>>)
    /\ UNCHANGED bpanicked
    /\ UNCHANGED <<tvars, dvars, cvars, kvars, evars, uvars>>

BNext == BSet \/ BRead \/ BWrite \/ BFillBuf \/ BConsume

SpecBuffer == BInit /\ [][BNext]_vars

ArrayBufferInv(self) == self.pos <= self.len /\ self.len <= SIZE

\* C23 as stated: pos <= len <= SIZE in every state reachable through new,
\* set, read, write, fill_buf and consume.
C23_ArrayBufferInvariant_Stated == ArrayBufferInv(buffer)

\* C23: pos <= len <= SIZE is kept by set of a slice of at most SIZE bytes,
\* by read, write and fill_buf, and by consume of at most len - pos bytes,
\* and none of these calls panics; a write copies min(SIZE - len, b.len())
\* bytes to the end of the unread section and reports that count; a read
\* returns the first min(len - pos, n) unread bytes and moves pos past them;
\* set(b) leaves pos = 0, len = b.len() and b as the unread section.
C23_ArrayBufferInvariant ==
    [][(/\ ArrayBufferInv(buffer)
        /\ ~(bret'.op = "consume" /\ bret'.n > buffer.len - buffer.pos)
        /\ ~(bret'.op = "set" /\ Len(bret'.arg) > SIZE)) =>
          /\ ArrayBufferInv(buffer')
          /\ ~bpanicked'
          /\ bret'.op = "write" =>
                /\ bret'.ret = Min(SIZE - buffer.len, Len(bret'.arg))
                /\ bret'.ret <= SIZE - buffer.len
                /\ buffer'.len = buffer.len + bret'.ret
                /\ buffer'.pos = buffer.pos
                /\ unread(buffer') = unread(buffer) \o Take(bret'.arg, bret'.ret)
          /\ bret'.op = "read" =>
                /\ bret'.ret = Min(buffer.len - buffer.pos, bret'.n)
                /\ bret'.ret <= buffer.len - buffer.pos
                /\ bret'.bytes = Take(unread(buffer), bret'.ret)
                /\ buffer'.pos = buffer.pos + bret'.ret
                /\ buffer'.len = buffer.len
          /\ bret'.op = "set" =>
                /\ buffer'.pos = 0
                /\ buffer'.len = Len(bret'.arg)
                /\ unread(buffer') = bret'.arg
          /\ bret'.op = "fill_buf" =>
                /\ bret'.bytes = unread(buffer)
                /\ buffer' = buffer
          /\ bret'.op = "consume" =>
                /\ buffer'.pos = buffer.pos + bret'.n
                /\ buffer'.len = buffer.len]_vars

\* Two bytes were read from a buffer holding three, and a write of three
\* bytes then found room for one.
C23_Witness ==
    /\ bret.op = "write"
    /\ Len(bret.arg) = 3
    /\ bret.ret = 1
    /\ buffer.pos = 2
    /\ buffer.len = SIZE
    /\ ~bpanicked

\* C24: the parser and the read state made by Chunker::new are released
\* once each when the Chunker is dropped and not before, whether the calls
\* of next had ended with None, with an error, or midway; an event obtained
\* in a turn of next has been deleted once and its Box freed once by the
\* time the turn is over, it was not read after that, and no event is left
\* alive between turns; when the parser fails no event is made, nothing is
\* deleted and the Box is freed.
C24_ReleasedOnce ==
    /\ heap.parser.deleted = (IF heap.dropped THEN 1 ELSE 0)
    /\ heap.parser.freed = (IF heap.dropped THEN 1 ELSE 0)
    /\ heap.read_state.freed = (IF heap.dropped THEN 1 ELSE 0)
    /\ heap.live_events = 0
    /\ heap.event.boxed => heap.event.freed = 1
    /\ heap.event.deleted = (IF heap.event.made THEN 1 ELSE 0)
    /\ ~heap.event.used_after

\* A Chunker dropped midway: one chunk was yielded, a second document is
\* open, and the last turn had an event.
C24_Witness ==
    /\ heap.dropped
    /\ heap.event.made
    /\ Len(results) = 1
    /\ results[1].tag = "Ok"
    /\ open # <<>>

\* A Chunker dropped after an error was returned.
C24_Witness_Error ==
    /\ heap.dropped
    /\ heap.event.boxed /\ ~heap.event.made
    /\ results # <<>>
    /\ results[Len(results)].tag = "Err"

(***************************************************************************)
(* SpecChunkerLive: SpecChunker with the scheduling of a consumer that     *)
(* goes on calling next and of a parser over a finite input.  A call of    *)
(* next runs turn after turn until one returns, and the parser of a finite *)
(* input does not produce events for ever without reading on, ending a     *)
(* document or ending the stream: while a turn that changes one of         *)
(* KProgressVars stays possible, one is taken.  Dropping the Chunker is    *)
(* left to the consumer and is under no fairness condition.                *)
(***************************************************************************)
KProgressVars == <<rpos, error, parser, docs, open, results>>

KTurn == KRead \/ KFail \/ KParseFail \/ KEvent \/ KIdleEvent

SpecChunkerLive == KInit /\ [][KNext]_vars /\ WF_KProgressVars(KTurn)

Ended == results # <<>> /\ results[Len(results)].tag \in {"None", "Err"}

\* C25, the calls up to the end of the sequence: while neither None nor an
\* error has been returned, a call of next returns (or the Chunker is
\* dropped), and the turn that gets the stream-end event returns None.
C25_CallsReturn ==
    /\ \A n \in 0..MaxDocs :
          (Len(results) = n /\ ~Ended) ~> (Len(results) > n \/ heap.dropped)
    /\ [][lastev' = "YAML_STREAM_END_EVENT" /\ lastev # lastev' =>
             results' = Append(results, ChunkNone)]_vars

\* C25, the calls after the end: once a call of next made after None or
\* after an error has gone through a turn of its loop, it returns (or the
\* Chunker is dropped).
C25_StaysEnded ==
    \A n \in 1..(MaxDocs + 1) :
        (Ended /\ lastev = "YAML_NO_EVENT" /\ Len(results) = n)
            ~> (Len(results) > n \/ heap.dropped)

\* What the calls after the end do return: nothing, so no document.
C25_NoDocumentAfterEnd ==
    [][Ended => results' = results]_vars

\* The decoder under the encoder has no byte left to read and no code unit
\* in its lookahead.
SourceExhausted(self) ==
    /\ self.source.source.second = <<>>
    /\ self.source.source.done_first \/ is_empty(self.source.source.first)
    /\ "buf" \in DOMAIN self.source => self.source.buf = <<>>

\* C26: a read with a buffer that is not empty returns Ok(0) only when the
\* remainder was empty before the call and is empty after it and the source
\* is exhausted, so neither a discarded BOM nor a pending remainder gives a
\* zero-length result before the end; and once such a read has returned
\* Ok(0), every later read returns Ok(0).
C26_EndOfStream ==
    [][elast' # <<>> =>
          /\ (elast'[1].n > 0 /\ elast'[1].res = ReadOk(<<>>)) =>
                /\ is_empty(encoder.remainder)
                /\ is_empty(encoder'.remainder)
                /\ SourceExhausted(encoder')
          /\ eeof => elast'[1].res = ReadOk(<<>>)]_vars

\* U+FEFF U+1F600 read a byte at a time: the BOM is discarded, the four
\* bytes come out through the remainder, and the read after them is Ok(0).
C26_Witness ==
    /\ esrc.text = <<BOM, \h1F600>>
    /\ eeof
    /\ efailed = 0
    /\ elast = <<[n |-> 1, res |-> ReadOk(<<>>)]>>
    /\ eout = utf8_of(\h1F600)

\* The unread bytes of the remainder are the end of the UTF-8 of a character
\* whose beginning is the end of what the reads have returned.
TailOfLastChar(rem, emitted) ==
    \E ch \in Scalars :
       \E k \in 1..(MAX_UTF8_ENCODED_LEN - 1) :
          /\ k < Len(utf8_of(ch))
          /\ rem = Drop(utf8_of(ch), k)
          /\ Len(emitted) >= k
          /\ SubSeq(emitted, Len(emitted) - k + 1, Len(emitted)) = Take(utf8_of(ch), k)

RECURSIVE ItemsFrom(_)
ItemsFrom(source) ==
    LET nx == source_next(source)
    IN  IF nx.item.tag = "None" THEN <<>> ELSE <<nx.item>> \o ItemsFrom(nx.self)

\* The items of the whole source.
AllItems == ItemsFrom(Transcoder_new(Bare(esrc.bytes), esrc.enc).inner.source)

\* The number of the items the encoder has pulled so far.
PulledOf(items, self) == Len(items) - Len(ItemsFrom(self.source))

\* The index of the first error among the items, 0 when there is none.
FirstErrorOf(items) ==
    IF \E k \in 1..Len(items) : items[k].tag = "Err"
    THEN CHOOSE k \in 1..Len(items) :
            /\ items[k].tag = "Err"
            /\ \A j \in 1..(k - 1) : items[j].tag = "Ok"
    ELSE 0

\* The UTF-8 of the first n items, without a leading BOM.
Utf8OfItems(items, n) ==
    utf8_text(StripBom([i \in 1..n |-> items[i].val]))

\* While no read has failed, the encoder has pulled fewer than k items and
\* what the reads have returned is a beginning of the UTF-8 of items 1..k-1.
BeforeFirstError ==
    efailed = 0 =>
        LET items == AllItems
            k     == FirstErrorOf(items)
        IN  k > 0 =>
              /\ PulledOf(items, encoder) < k
              /\ IsPrefix(eout, Utf8OfItems(items, k - 1))

\* C28: when the first error of the source is its item k, then as long as
\* no read has failed the encoder has pulled fewer than k items and the
\* bytes the reads have returned are a beginning of the UTF-8 of items
\* 1..k-1 without a leading BOM; and the read that pulls item k returns
\* that error, pulls nothing after it and returns no byte.
C28_FirstError ==
    /\ []BeforeFirstError
    /\ [][efailed = 0 =>
             LET items == AllItems
                 k     == FirstErrorOf(items)
             IN  (k > 0 /\ PulledOf(items, encoder') >= k) =>
                   /\ elast' = <<[n |-> elast'[1].n, res |-> ReadErr(items[k])]>>
                   /\ PulledOf(items, encoder') = k
                   /\ efailed' = 1
                   /\ eout' = eout]_vars

\* UTF-16 U+0041 and an unpaired low surrogate: a read of one byte returned
\* 41, and the next read returned the error of the second item.
C28_Witness ==
    /\ esrc.text = <<\h41, \hDE00>>
    /\ esrc.enc = "UTF16LE"
    /\ eout = <<\h41>>
    /\ efailed = 1
    /\ elast # <<>>
    /\ elast[1].res = ReadErr(EncodingError(16, <<0, \hDE00>>, 2))

\* The byte values of a chunk; the bytes of the stream of SpecChunker are
\* distinct, so a value stands for an offset.
BytesOf(item) == {item.bytes[i] : i \in 1..Len(item.bytes)}

\* The ranges [s, e) of the chunks yielded so far are in order, each ending
\* no later than the next begins and the last no later than
\* capture_start_pos; each chunk is the bytes of its range; and no byte of
\* the stream is in two chunks.
ChunksInOrder ==
    /\ ~panicked
    /\ \A i \in 1..Len(docs) :
          /\ docs[i].s <= docs[i].e
          /\ docs[i].e <= capture_start_pos
          /\ results[i] = ChunkOk(CanonBytes(docs[i].s, docs[i].e))
    /\ \A i \in 1..Len(docs) : \A j \in (i + 1)..Len(docs) :
          /\ docs[i].e <= docs[j].s
          /\ BytesOf(results[i]) \cap BytesOf(results[j]) = {}

\* C29: capture_start_pos never decreases under the reads, trims and takes
\* of a Chunker, whose offsets are in range, and the chunks it yields are
\* disjoint ranges of the stream in the order of their offsets.
C29_ChunksDisjoint ==
    /\ [][capture_start_pos' >= capture_start_pos]_vars
    /\ []ChunksInOrder

\* C29 for a ChunkReader called with any offsets (SpecChunk): a call that
\* does not panic, which is a call whose offset is in range, does not
\* decrease capture_start_pos.
C29_StartNeverDecreases ==
    [][~panicked' => capture_start_pos' >= capture_start_pos]_vars

\* Two chunks of one byte each with a byte between them.
C29_Witness ==
    /\ docs = <<[s |-> 0, e |-> 1], [s |-> 2, e |-> 3]>>
    /\ Len(results) = 2
    /\ results[1] = ChunkOk(<<\h61>>)
    /\ results[2] = ChunkOk(<<\h63>>)
    /\ capture_start_pos = 3

(***************************************************************************)
(* SpecCallback: SpecChunker with a parser that may call the read handler  *)
(* at any time, also after the handler has reported a failure and between  *)
(* the calls of next.  libyaml stops reading once the handler has failed;  *)
(* read_callback does not rely on that, and here it is called without it.  *)
(***************************************************************************)
QRead ==
    /\ ~heap.dropped
    /\ ~panicked
    /\ \E n \in 1..MaxBuf :
         \E rd \in UnderlyingReturns(n) :
          \E r \in {read_callback(ReadState, rd)} :
             /\ capture' = r.self.reader.capture
             /\ capture_start_pos' = r.self.reader.capture_start_pos
             /\ error' = r.self.error
             /\ rpos' = rpos + r.size_read
             /\ rderr' = (r.ret = READ_FAILURE)
    /\ lastev' = ""
    /\ UNCHANGED <<canon, panicked, trimmed, taken, parser, docs, open, results, heap>>
    /\ UNCHANGED <<tvars, dvars, evars, uvars, bvars>>

QNext == KNext \/ QRead

SpecCallback == KInit /\ [][QNext]_vars

\* A step in which the read handler is called.
ReadStep == KRead \/ QRead

\* C30: a call of the read handler whose underlying read fails stores the
\* error, returns READ_FAILURE and leaves capture, capture_start_pos and
\* the position in the stream as they were; one whose read succeeds leaves
\* no stored error, whatever was stored before, and appends what was read
\* to the capture; an error is stored only by a failed read; and next
\* returns the reader's error only when one is stored, and then removes it,
\* and returns the parser's diagnostic only when none is stored.
C30_StoredError ==
    /\ [][ReadStep =>
             IF rderr'
             THEN /\ error' = <<ChunkErr("Reader")>>
                  /\ capture' = capture
                  /\ capture_start_pos' = capture_start_pos
                  /\ rpos' = rpos
             ELSE /\ error' = <<>>
                  /\ capture' = capture \o CanonBytes(rpos, rpos')
                  /\ capture_start_pos' = capture_start_pos]_vars
    /\ [][(error = <<>> /\ error' # <<>>) => (ReadStep /\ rderr')]_vars
    /\ [][results' = Append(results, ChunkErr("Reader")) =>
             (error = <<ChunkErr("Reader")>> /\ error' = <<>>)]_vars
    /\ [][results' = Append(results, ChunkErr("InvalidData")) => error = <<>>]_vars

\* After a read that returned bytes, a read failed, and next has returned
\* the reader's error and removed it.
C30_Witness ==
    /\ results = <<ChunkErr("Reader")>>
    /\ error = <<>>
    /\ capture # <<>>
    /\ rpos > 0

\* A read has failed after one that returned bytes, in a parser that has
\* not failed: the error is stored and the capture holds the bytes.
C30_Witness_Stored ==
    /\ error # <<>>
    /\ rderr
    /\ parser.error = ""
    /\ capture # <<>>
    /\ results = <<>>

=============================================================================
